---- MODULE Spec2Model ----
(***************************************************************************)
(* NYC-Route-Finder: the quote aggregation engine.                         *)
(*                                                                         *)
(* GoogleMapsService.get_multi_modal_routes is modelled as a coroutine     *)
(* whose steps are its await points: one directions call per mode, the two *)
(* geocoding calls, and the two provider branches joined by                *)
(* asyncio.gather.  Every upstream reply is chosen by the environment.     *)
(*                                                                         *)
(* Conventions for Python values:                                          *)
(*   None            the record [none |-> TRUE]                            *)
(*   a missing key   the record [absent |-> TRUE]                          *)
(*   a number        [num |-> n]   where the value may also be None        *)
(*   a string        [str |-> <<"c", "h", "a", "r", "s">>] where the code    *)
(*                   looks into it, [text |-> "..."] where it is opaque    *)
(*   a dict          a function whose DOMAIN is the key set, or, where the *)
(*                   insertion order is observable, a sequence of          *)
(*                   [key, val] pairs                                      *)
(*   an exception    the record [raise |-> TRUE] returned by an operator   *)
(*                   in place of its value                                 *)
(* Coordinates are integers in 1/1000 degree, money inside the synthetic   *)
(* estimators in 1/100000 dollar, miles and minutes in 1/1000.             *)
(***************************************************************************)
EXTENDS Integers, Sequences, FiniteSets, TLC

None == [none |-> TRUE]
Absent == [absent |-> TRUE]
Raise == [raise |-> TRUE]
Num(n) == [num |-> n]
Str(chars) == [str |-> chars]
Text(t) == [text |-> t]
Bool(b) == [bool |-> b]

\* Python truthiness of an optional string / optional number / dict-or-None.
Truthy(v) ==
    IF v = None \/ v = Absent THEN FALSE
    ELSE IF "str" \in DOMAIN v THEN v.str # <<>>
    ELSE IF "num" \in DOMAIN v THEN v.num # 0
    ELSE IF "text" \in DOMAIN v THEN v.text # ""
    ELSE IF "bool" \in DOMAIN v THEN v.bool
    ELSE TRUE

Max(a, b) == IF a >= b THEN a ELSE b

(***************************************************************************)
(* Directions Gateway                                                      *)
(***************************************************************************)

modes == <<"driving", "transit", "walking", "bicycling">>

Modes == {modes[i] : i \in 1..Len(modes)}

\* A transport failure, a non-JSON body: client.get / response.json() raises.
Throws == [throws |-> TRUE]

\* A leg of unexpected shape (a key the code indexes is missing).
BadLeg == [bad |-> TRUE]

LegA ==
    [distance |-> [text |-> "1.2 km", value |-> 1200],
     duration |-> [text |-> "12 mins", value |-> 720],
     start_address |-> "Times Square", end_address |-> "Central Park",
     steps |-> 2]

\* 150 s is an exact half minute.
LegB ==
    [distance |-> [text |-> "0.4 km", value |-> 400],
     duration |-> [text |-> "3 mins", value |-> 150],
     start_address |-> "Times Square", end_address |-> "Central Park",
     steps |-> 1]

\* Replies of the directions endpoint, per mode.  Every mode can fail in each
\* of the ways the code distinguishes; driving also has alternatives.
DirectionsReplies(mode) ==
    {Throws,
     [status |-> "ZERO_RESULTS", routes |-> <<>>],
     [status |-> "OK", routes |-> <<>>],
     [status |-> "OK", routes |-> << [legs |-> <<BadLeg>>] >>],
     [status |-> "OK", routes |-> << [legs |-> <<LegA>>] >>]}
    \cup (IF mode = "driving"
          THEN {[status |-> "OK",
                 routes |-> << [legs |-> <<LegB, LegA>>], [legs |-> <<LegA>>] >>]}
          ELSE {})

\* Python 3 round() of seconds / 60: round-half-to-even.
round_div60(seconds) ==
    LET q == seconds \div 60
        r == seconds % 60
    IN  IF r < 30 THEN q
        ELSE IF r > 30 THEN q + 1
        ELSE IF q % 2 = 0 THEN q ELSE q + 1

\* Lines 88-107: the body of the try block; Raise where a line raises.
directions_try(reply, mode) ==
    IF reply = Throws THEN Raise
    ELSE IF reply.status # "OK" THEN None
    ELSE IF Len(reply.routes) = 0 THEN Raise
    ELSE IF Len(reply.routes[1].legs) = 0 THEN Raise
    ELSE LET route == reply.routes[1].legs[1]
         IN  IF route = BadLeg THEN Raise
             ELSE [distance |-> route.distance.text,
                   distance_meters |-> route.distance.value,
                   duration |-> route.duration.text,
                   duration_minutes |-> round_div60(route.duration.value),
                   start_address |-> route.start_address,
                   end_address |-> route.end_address,
                   steps |-> route.steps,
                   mode |-> mode]

\* The try body with the except clause of lines 109-111 left out.
_get_directions_unguarded(reply, mode) == directions_try(reply, mode)

\* The reply is the result of client.get at line 88.
_get_directions(reply, mode) ==
    LET r == directions_try(reply, mode)
    IN  IF r = Raise THEN None ELSE r

(***************************************************************************)
(* Geocoding Resolver                                                      *)
(***************************************************************************)

BadResult == [bad |-> TRUE]

TimesSquare ==
    [formatted_address |-> "Times Square", lat |-> 40759, lng |-> -73985,
     place_id |-> "ts"]

CentralPark ==
    [formatted_address |-> "Central Park", lat |-> 40783, lng |-> -73965,
     place_id |-> "cp"]

GeocodeReplies ==
    {Throws,
     [status |-> "ZERO_RESULTS", results |-> <<>>],
     [status |-> "OK", results |-> <<>>],
     [status |-> "OK", results |-> <<BadResult>>],
     [status |-> "OK", results |-> <<TimesSquare>>],
     [status |-> "OK", results |-> <<CentralPark, TimesSquare>>]}

\* The try body reading the last result in place of the first.
geocode_try_last_result(reply) ==
    IF reply = Throws THEN Raise
    ELSE IF reply.status = "OK"
    THEN IF Len(reply.results) = 0 THEN Raise
         ELSE LET result == reply.results[Len(reply.results)]
              IN  IF result = BadResult THEN Raise
                  ELSE [address |-> result.formatted_address,
                        lat |-> result.lat,
                        lng |-> result.lng,
                        place_id |-> result.place_id]
    ELSE None

\* Lines 269-282: the body of the try block.
geocode_try(reply) ==
    IF reply = Throws THEN Raise
    ELSE IF reply.status = "OK"
    THEN IF Len(reply.results) = 0 THEN Raise
         ELSE LET result == reply.results[1]
              IN  IF result = BadResult THEN Raise
                  ELSE [address |-> result.formatted_address,
                        lat |-> result.lat,
                        lng |-> result.lng,
                        place_id |-> result.place_id]
    ELSE None

\* The try/except of lines 268-285 left out.
geocode_address_unguarded(reply) == geocode_try(reply)

geocode_address(reply) ==
    LET r == geocode_try(reply)
    IN  IF r = Raise THEN None ELSE r


(***************************************************************************)
(* Strings, ordered dicts and number formatting                            *)
(***************************************************************************)

upper_case ==
    <<"A", "B", "C", "D", "E", "F", "G", "H", "I", "J", "K", "L", "M",
      "N", "O", "P", "Q", "R", "S", "T", "U", "V", "W", "X", "Y", "Z">>

lower_case ==
    <<"a", "b", "c", "d", "e", "f", "g", "h", "i", "j", "k", "l", "m",
      "n", "o", "p", "q", "r", "s", "t", "u", "v", "w", "x", "y", "z">>

\* str.lower() on one character.
LowerChar(c) ==
    IF \E i \in 1..Len(upper_case) : upper_case[i] = c
    THEN lower_case[CHOOSE i \in 1..Len(upper_case) : upper_case[i] = c]
    ELSE c

\* str.lower()
Lower(s) == [i \in 1..Len(s) |-> LowerChar(s[i])]

\* sub in s
Contains(s, sub) ==
    \E i \in 1..(Len(s) - Len(sub) + 1) : SubSeq(s, i, i + Len(sub) - 1) = sub

\* s.replace(" ", "_").replace("-", "_")
Slug(s) == [i \in 1..Len(s) |-> IF s[i] \in {" ", "-"} THEN "_" ELSE s[i]]

\* A dict whose insertion order is observable (next(iter(d.values()))).
HasKey(d, k) == \E i \in 1..Len(d) : d[i].key = k

Get(d, k) == d[CHOOSE i \in 1..Len(d) : d[i].key = k].val

\* d[k] = v: an existing key keeps its position.
Put(d, k, v) ==
    IF HasKey(d, k)
    THEN [i \in 1..Len(d) |-> IF d[i].key = k THEN [key |-> k, val |-> v] ELSE d[i]]
    ELSE Append(d, [key |-> k, val |-> v])

\* round(n / d) and the "{:.0f}" format of n / d: round-half-to-even.
py_round(n, d) ==
    LET q == n \div d
        r == n % d
    IN  IF 2 * r < d THEN q
        ELSE IF 2 * r > d THEN q + 1
        ELSE IF q % 2 = 0 THEN q ELSE q + 1

\* f"${low/100:.0f}-${high/100:.0f}"; None / 100 raises TypeError.
price_range_fmt(low, high) ==
    IF low = None \/ high = None THEN Raise
    ELSE [dollars_low |-> py_round(low.num, 100),
          dollars_high |-> py_round(high.num, 100)]

RECURSIVE isqrt_search(_, _, _)
isqrt_search(n, lo, hi) ==
    IF lo >= hi THEN lo
    ELSE LET mid == (lo + hi + 1) \div 2
         IN  IF mid * mid <= n THEN isqrt_search(n, mid, hi)
             ELSE isqrt_search(n, lo, mid - 1)

\* floor(sqrt(n)) for 0 <= n < 2^30
ISqrt(n) == isqrt_search(n, 0, 32767)

\* The distance with the longitudes left out.
approx_distance_miles_lat_only(start_lat, start_lng, end_lat, end_lng) ==
    LET lat_diff == IF end_lat >= start_lat THEN end_lat - start_lat
                    ELSE start_lat - end_lat
    IN  (ISqrt((lat_diff * lat_diff) * 10000) * 69) \div 100

\* ((lat_diff ** 2 + lng_diff ** 2) ** 0.5) * 69, in 1/1000 mile, from
\* coordinates in 1/1000 degree (the square root is taken in 1/100000 degree).
approx_distance_miles(start_lat, start_lng, end_lat, end_lng) ==
    LET lat_diff == IF end_lat >= start_lat THEN end_lat - start_lat
                    ELSE start_lat - end_lat
        lng_diff == IF end_lng >= start_lng THEN end_lng - start_lng
                    ELSE start_lng - end_lng
    IN  (ISqrt((lat_diff * lat_diff + lng_diff * lng_diff) * 10000) * 69) \div 100


(***************************************************************************)
(* Provider Client: Uber                                                   *)
(***************************************************************************)

\* A JSON body that is not an object, a line item that is not an object.
NotDict == [notdict |-> TRUE]

K_uberx == <<"u", "b", "e", "r", "x">>
K_uber_bike == <<"u", "b", "e", "r", "_", "b", "i", "k", "e">>
K_uber_scooter == <<"u", "b", "e", "r", "_", "s", "c", "o", "o", "t", "e", "r">>
K_uber_pool == <<"u", "b", "e", "r", "_", "p", "o", "o", "l">>
K_uber_xl == <<"u", "b", "e", "r", "_", "x", "l">>
K_uber_comfort == <<"u", "b", "e", "r", "_", "c", "o", "m", "f", "o", "r", "t">>
K_uber_black == <<"u", "b", "e", "r", "_", "b", "l", "a", "c", "k">>

\* The rules of _normalize_product_name with "xl" tested before "bike".
_normalize_product_name_xl_first(display_name) ==
    LET name_lower == Lower(display_name)
    IN  IF Contains(name_lower, K_uberx)
           \/ Contains(name_lower, <<"u", "b", "e", "r", " ", "x">>)
        THEN K_uberx
        ELSE IF Contains(name_lower, <<"x", "l">>) THEN K_uber_xl
        ELSE IF Contains(name_lower, <<"b", "i", "k", "e">>) THEN K_uber_bike
        ELSE IF Contains(name_lower, <<"s", "c", "o", "o", "t", "e", "r">>)
        THEN K_uber_scooter
        ELSE IF Contains(name_lower, <<"p", "o", "o", "l">>) THEN K_uber_pool
        ELSE IF Contains(name_lower, <<"c", "o", "m", "f", "o", "r", "t">>)
        THEN K_uber_comfort
        ELSE IF Contains(name_lower, <<"b", "l", "a", "c", "k">>) THEN K_uber_black
        ELSE Slug(Lower(display_name))

\* display_name is a Python str here (a sequence of characters).
_normalize_product_name(display_name) ==
    LET name_lower == Lower(display_name)
    IN  IF Contains(name_lower, K_uberx)
           \/ Contains(name_lower, <<"u", "b", "e", "r", " ", "x">>)
        THEN K_uberx
        ELSE IF Contains(name_lower, <<"b", "i", "k", "e">>) THEN K_uber_bike
        ELSE IF Contains(name_lower, <<"s", "c", "o", "o", "t", "e", "r">>)
        THEN K_uber_scooter
        ELSE IF Contains(name_lower, <<"p", "o", "o", "l">>) THEN K_uber_pool
        ELSE IF Contains(name_lower, <<"x", "l">>) THEN K_uber_xl
        ELSE IF Contains(name_lower, <<"c", "o", "m", "f", "o", "r", "t">>)
        THEN K_uber_comfort
        ELSE IF Contains(name_lower, <<"b", "l", "a", "c", "k">>) THEN K_uber_black
        ELSE Slug(Lower(display_name))

\* One iteration of the loop of _process_price_estimates (lines 169-183).
\* product.get on a non-dict raises; a null display_name reaches .lower().
process_price_item(processed, product) ==
    IF processed = Raise \/ product = NotDict THEN Raise
    ELSE LET display_name == IF product.display_name = Absent THEN Str(<<>>)
                             ELSE product.display_name
         IN  IF display_name = None THEN Raise
             ELSE [processed EXCEPT !.products =
                      Put(@, _normalize_product_name(display_name.str),
                          [display_name |-> IF product.display_name = Absent THEN None
                                            ELSE product.display_name,
                           estimate |-> product.estimate,
                           low_estimate |-> product.low_estimate,
                           high_estimate |-> product.high_estimate,
                           duration |-> product.duration,
                           status |-> "available"])]

RECURSIVE process_price_items(_, _)
process_price_items(processed, prices) ==
    IF prices = <<>> THEN processed
    ELSE process_price_items(process_price_item(processed, Head(prices)), Tail(prices))

\* The fields product_id, currency_code, distance and surge_multiplier are
\* copied through and read by nothing; they are left out, as is the timestamp.
_process_price_estimates(data) ==
    IF data = NotDict THEN Raise
    ELSE process_price_items([service |-> "uber", products |-> <<>>],
                             IF "prices" \in DOMAIN data THEN data.prices ELSE <<>>)

UBER_BASE_RATE == 255000
UBER_PER_MILE_RATE == 175
UBER_PER_MINUTE_RATE == 35
UBER_HIGH_FACTOR == 13

\* Lines 248-304.  Distances in 1/1000 mile, fares in 1/100000 dollar.
_mock_price_estimates(start_lat, start_lng, end_lat, end_lng) ==
    LET miles == approx_distance_miles(start_lat, start_lng, end_lat, end_lng)
        estimated_duration_minutes == Max(8000, miles * 3)
        base_fare == UBER_BASE_RATE + miles * UBER_PER_MILE_RATE
                     + estimated_duration_minutes * UBER_PER_MINUTE_RATE
    IN  [service |-> "uber",
         products |-> <<
            [key |-> K_uberx,
             val |-> [display_name |-> Str(<<"U", "b", "e", "r", "X">>),
                      estimate |-> [dollars_low |-> py_round(base_fare, 100000),
                                    dollars_high |->
                                        py_round(base_fare * UBER_HIGH_FACTOR, 1000000)],
                      low_estimate |-> Num(base_fare \div 1000),
                      high_estimate |-> Num((base_fare * UBER_HIGH_FACTOR) \div 10000),
                      duration |-> Num((estimated_duration_minutes * 60) \div 1000),
                      status |-> "available"]],
            [key |-> K_uber_bike,
             val |-> [display_name |-> Str(<<"U", "b", "e", "r", " ", "B", "i", "k", "e">>),
                      estimate |-> Text("$3-6"),
                      low_estimate |-> Num(300),
                      high_estimate |-> Num(600),
                      duration |-> Num((miles * 4 * 60) \div 1000),
                      status |-> IF miles < 3000 THEN "available" ELSE "unavailable"]],
            [key |-> K_uber_scooter,
             val |-> [display_name |->
                          Str(<<"U", "b", "e", "r", " ", "S", "c", "o", "o", "t", "e", "r">>),
                      estimate |-> Text("$4-8"),
                      low_estimate |-> Num(400),
                      high_estimate |-> Num(800),
                      duration |-> Num((miles * 3 * 60) \div 1000),
                      status |-> IF miles < 2500 THEN "available" ELSE "unavailable"]] >>]

\* Lines 41, 86, 129: not self.server_token.
server_token_missing(server_token) == ~Truthy(server_token)

\* The replies of GET /estimates/price.
UberX_item ==
    [display_name |-> Str(<<"U", "b", "e", "r", "X">>), estimate |-> Text("$15-20"),
     low_estimate |-> Num(1500), high_estimate |-> Num(2000), duration |-> Num(600)]

\* A metered product: the API gives no numeric estimate.
UberX_metered_item ==
    [display_name |-> Str(<<"u", "b", "e", "r", "X">>), estimate |-> Text("Metered"),
     low_estimate |-> None, high_estimate |-> None, duration |-> Num(600)]

Taxi_item ==
    [display_name |-> Str(<<"T", "a", "x", "i">>), estimate |-> Text("Metered"),
     low_estimate |-> None, high_estimate |-> None, duration |-> Num(540)]

UberXL_item ==
    [display_name |-> Str(<<"U", "b", "e", "r", "X", "L">>), estimate |-> Text("$25-32"),
     low_estimate |-> Num(2500), high_estimate |-> Num(3200), duration |-> Num(600)]

UberBlack_item ==
    [display_name |-> Str(<<"B", "l", "a", "c", "k">>), estimate |-> Text("$40-52"),
     low_estimate |-> Num(4000), high_estimate |-> Num(5200), duration |-> Num(660)]

\* A line item whose display_name is null.
UberUnnamed_item ==
    [display_name |-> None, estimate |-> Text("$9-12"),
     low_estimate |-> Num(900), high_estimate |-> Num(1200), duration |-> Num(480)]

UberPriceReplies ==
    {Throws,
     [status_code |-> 401, json |-> [message |-> "unauthorized"]],
     [status_code |-> 200, json |-> NotDict],
     [status_code |-> 200, json |-> [message |-> "no prices"]],
     [status_code |-> 200, json |-> [prices |-> <<UberX_item>>]],
     [status_code |-> 200, json |-> [prices |-> <<UberX_metered_item>>]],
     [status_code |-> 200, json |-> [prices |-> <<Taxi_item, UberBlack_item>>]],
     [status_code |-> 200, json |-> [prices |-> <<UberXL_item, UberUnnamed_item>>]]}

\* The status test of line 64 left out.
price_estimates_try_any_status(reply, start_lat, start_lng, end_lat, end_lng) ==
    IF reply = Throws THEN Raise
    ELSE _process_price_estimates(reply.json)

\* Lines 44-73: the reply is the result of client.get at line 48.
price_estimates_try(reply, start_lat, start_lng, end_lat, end_lng) ==
    IF reply = Throws THEN Raise
    ELSE IF reply.status_code = 200 THEN _process_price_estimates(reply.json)
    ELSE _mock_price_estimates(start_lat, start_lng, end_lat, end_lng)

\* UberService.get_price_estimates once its request, if any, has been answered.
\* With no server token no request is made and the reply is not read.
get_price_estimates(server_token, reply, start_lat, start_lng, end_lat, end_lng) ==
    IF server_token_missing(server_token)
    THEN _mock_price_estimates(start_lat, start_lng, end_lat, end_lng)
    ELSE LET r == price_estimates_try(reply, start_lat, start_lng, end_lat, end_lng)
         IN  IF r = Raise
             THEN _mock_price_estimates(start_lat, start_lng, end_lat, end_lng)
             ELSE r


(***************************************************************************)
(* Provider Client: Lyft                                                   *)
(***************************************************************************)

K_unknown == <<"u", "n", "k", "n", "o", "w", "n">>
K_lyft == <<"l", "y", "f", "t">>
K_lyft_bike == <<"l", "y", "f", "t", "_", "b", "i", "k", "e">>
K_lyft_scooter == <<"l", "y", "f", "t", "_", "s", "c", "o", "o", "t", "e", "r">>
K_lyft_standard == <<"l", "y", "f", "t", "_", "s", "t", "a", "n", "d", "a", "r", "d">>
K_lyft_shared == <<"l", "y", "f", "t", "_", "s", "h", "a", "r", "e", "d">>
K_lyft_xl == <<"l", "y", "f", "t", "_", "x", "l">>
K_lyft_lux == <<"l", "y", "f", "t", "_", "l", "u", "x">>

\* ride_type is None or a Python str.
_normalize_ride_type_name(ride_type) ==
    IF ~Truthy(ride_type) THEN K_unknown
    ELSE LET ride_type_lower == Lower(ride_type.str)
         IN  IF Contains(ride_type_lower, K_lyft)
                /\ Contains(ride_type_lower, <<"b", "i", "k", "e">>)
             THEN K_lyft_bike
             ELSE IF Contains(ride_type_lower, K_lyft)
                     /\ Contains(ride_type_lower, <<"s", "c", "o", "o", "t", "e", "r">>)
             THEN K_lyft_scooter
             ELSE IF ride_type_lower \in {K_lyft, <<"s", "t", "a", "n", "d", "a", "r", "d">>}
             THEN K_lyft_standard
             ELSE IF Contains(ride_type_lower, <<"s", "h", "a", "r", "e", "d">>)
                     \/ Contains(ride_type_lower, <<"l", "i", "n", "e">>)
             THEN K_lyft_shared
             ELSE IF Contains(ride_type_lower, <<"x", "l">>) THEN K_lyft_xl
             ELSE IF Contains(ride_type_lower, <<"l", "u", "x">>) THEN K_lyft_lux
             ELSE Slug(Lower(ride_type.str))

\* dict.get(key) and dict.get(key, default) on a line item.
GetOr(v, default) == IF v = Absent THEN default ELSE v

\* One iteration of the loop of _process_cost_estimates (lines 208-223).
process_cost_item(processed, estimate) ==
    IF processed = Raise \/ estimate = NotDict THEN Raise
    ELSE LET ride_type == GetOr(estimate.ride_type, None)
         IN  [processed EXCEPT !.products =
                 Put(@, _normalize_ride_type_name(ride_type),
                     [ride_type |-> ride_type,
                      display_name |-> GetOr(estimate.display_name, ride_type),
                      estimated_cost_cents_min |->
                          GetOr(estimate.estimated_cost_cents_min, None),
                      estimated_cost_cents_max |->
                          GetOr(estimate.estimated_cost_cents_max, None),
                      estimated_duration_seconds |->
                          GetOr(estimate.estimated_duration_seconds, None),
                      is_valid_estimate |-> GetOr(estimate.is_valid_estimate, Bool(TRUE)),
                      status |-> IF Truthy(GetOr(estimate.is_valid_estimate, Bool(TRUE)))
                                 THEN "available" ELSE "unavailable"])]

RECURSIVE process_cost_items(_, _)
process_cost_items(processed, cost_estimates) ==
    IF cost_estimates = <<>> THEN processed
    ELSE process_cost_items(process_cost_item(processed, Head(cost_estimates)),
                            Tail(cost_estimates))

\* estimated_distance_miles, primetime_percentage, currency and the timestamp
\* are copied through and read by nothing; they are left out.
_process_cost_estimates(data) ==
    IF data = NotDict THEN Raise
    ELSE process_cost_items([service |-> "lyft", products |-> <<>>],
                            IF "cost_estimates" \in DOMAIN data
                            THEN data.cost_estimates ELSE <<>>)

LYFT_BASE_RATE == 265000
LYFT_PER_MILE_RATE == 185
LYFT_PER_MINUTE_RATE == 38
LYFT_HIGH_FACTOR == 135

\* Lines 289-345.  Distances in 1/1000 mile, fares in 1/100000 dollar.
_mock_cost_estimates(start_lat, start_lng, end_lat, end_lng) ==
    LET miles == approx_distance_miles(start_lat, start_lng, end_lat, end_lng)
        estimated_duration_minutes == Max(8000, miles * 3)
        base_fare == LYFT_BASE_RATE + miles * LYFT_PER_MILE_RATE
                     + estimated_duration_minutes * LYFT_PER_MINUTE_RATE
    IN  [service |-> "lyft",
         products |-> <<
            [key |-> K_lyft_standard,
             val |-> [ride_type |-> Str(K_lyft),
                      display_name |-> Str(<<"L", "y", "f", "t">>),
                      estimated_cost_cents_min |-> Num(base_fare \div 1000),
                      estimated_cost_cents_max |->
                          Num((base_fare * LYFT_HIGH_FACTOR) \div 100000),
                      estimated_duration_seconds |->
                          Num((estimated_duration_minutes * 60) \div 1000),
                      is_valid_estimate |-> Bool(TRUE),
                      status |-> "available"]],
            [key |-> K_lyft_bike,
             val |-> [ride_type |-> Str(K_lyft_bike),
                      display_name |-> Str(<<"L", "y", "f", "t", " ", "B", "i", "k", "e">>),
                      estimated_cost_cents_min |-> Num(350),
                      estimated_cost_cents_max |-> Num(650),
                      estimated_duration_seconds |-> Num((miles * 4 * 60) \div 1000),
                      is_valid_estimate |-> Bool(TRUE),
                      status |-> IF miles < 3000 THEN "available" ELSE "unavailable"]],
            [key |-> K_lyft_scooter,
             val |-> [ride_type |-> Str(K_lyft_scooter),
                      display_name |->
                          Str(<<"L", "y", "f", "t", " ", "S", "c", "o", "o", "t", "e", "r">>),
                      estimated_cost_cents_min |-> Num(450),
                      estimated_cost_cents_max |-> Num(850),
                      estimated_duration_seconds |-> Num((miles * 3 * 60) \div 1000),
                      is_valid_estimate |-> Bool(TRUE),
                      status |-> IF miles < 2500 THEN "available" ELSE "unavailable"]] >>]

\* "and" in place of the "or" of line 34.
credentials_missing_both(client_id, client_secret) ==
    ~Truthy(client_id) /\ ~Truthy(client_secret)

\* A token check that never finds a token.
token_needed_always(access_token) == TRUE

\* Lines 26 and 34: not self.client_id or not self.client_secret.
credentials_missing(client_id, client_secret) ==
    ~Truthy(client_id) \/ ~Truthy(client_secret)

\* Lines 77, 123, 167: not self.access_token.
token_needed(access_token) == ~Truthy(access_token)

\* The replies of POST /oauth/token.
LyftTokenReplies ==
    {Throws,
     [status_code |-> 401, json |-> [error |-> "invalid_client"]],
     [status_code |-> 200, json |-> NotDict],
     [status_code |-> 200, json |-> [token_type |-> "bearer"]],
     [status_code |-> 200, json |-> [access_token |-> Text("token-1")]]}

\* A token endpoint error leaves a marker in access_token.
_get_access_token_marks_failure(client_id, client_secret, access_token, reply) ==
    IF ~Truthy(client_id) \/ ~Truthy(client_secret)
    THEN [token |-> None, access_token |-> access_token]
    ELSE IF reply = Throws
    THEN [token |-> None, access_token |-> Text("failed")]
    ELSE IF reply.status_code = 200 /\ reply.json # NotDict
            /\ "access_token" \in DOMAIN reply.json
    THEN [token |-> reply.json.access_token, access_token |-> reply.json.access_token]
    ELSE [token |-> None, access_token |-> Text("failed")]

\* Lines 34-61 once the token request, if any, has been answered: the value
\* returned and the client's access_token afterwards.  Only line 52 assigns.
_get_access_token(client_id, client_secret, access_token, reply) ==
    IF credentials_missing(client_id, client_secret)
    THEN [token |-> None, access_token |-> access_token]
    ELSE IF reply = Throws
    THEN [token |-> None, access_token |-> access_token]
    ELSE IF reply.status_code = 200
    THEN IF reply.json = NotDict
         THEN [token |-> None, access_token |-> access_token]
         ELSE LET token == IF "access_token" \in DOMAIN reply.json
                           THEN reply.json.access_token ELSE None
              IN  [token |-> token, access_token |-> token]
    ELSE [token |-> None, access_token |-> access_token]

\* The replies of GET /cost.
Lyft_item ==
    [ride_type |-> Str(K_lyft), display_name |-> Str(<<"L", "y", "f", "t">>),
     estimated_cost_cents_min |-> Num(1400), estimated_cost_cents_max |-> Num(1900),
     estimated_duration_seconds |-> Num(500), is_valid_estimate |-> Absent]

Lyft_invalid_item == [Lyft_item EXCEPT !.is_valid_estimate = Bool(FALSE)]

Lyft_unpriced_item ==
    [Lyft_item EXCEPT !.estimated_cost_cents_min = None,
                      !.estimated_cost_cents_max = None]

LyftXL_invalid_item ==
    [ride_type |-> Str(<<"l", "y", "f", "t", "_", "p", "l", "u", "s">>),
     display_name |-> Str(<<"L", "y", "f", "t", " ", "X", "L">>),
     estimated_cost_cents_min |-> Num(2400), estimated_cost_cents_max |-> Num(3100),
     estimated_duration_seconds |-> Num(500), is_valid_estimate |-> Bool(FALSE)]

LyftLux_item ==
    [ride_type |-> Str(<<"l", "y", "f", "t", "_", "l", "u", "x">>),
     display_name |-> Absent,
     estimated_cost_cents_min |-> Num(3800), estimated_cost_cents_max |-> Num(4600),
     estimated_duration_seconds |-> Num(520), is_valid_estimate |-> Bool(TRUE)]

LyftCostReplies ==
    {Throws,
     [status_code |-> 500, json |-> [error |-> "server error"]],
     [status_code |-> 200, json |-> NotDict],
     [status_code |-> 200, json |-> [error |-> "no estimates"]],
     [status_code |-> 200, json |-> [cost_estimates |-> <<Lyft_item>>]],
     [status_code |-> 200, json |-> [cost_estimates |-> <<Lyft_invalid_item>>]],
     [status_code |-> 200, json |-> [cost_estimates |-> <<Lyft_unpriced_item>>]],
     [status_code |-> 200,
      json |-> [cost_estimates |-> <<LyftXL_invalid_item, LyftLux_item>>]]}

\* Lines 82-110: the reply is the result of client.get at line 86.
cost_estimates_try(reply, start_lat, start_lng, end_lat, end_lng) ==
    IF reply = Throws THEN Raise
    ELSE IF reply.status_code = 200 THEN _process_cost_estimates(reply.json)
    ELSE _mock_cost_estimates(start_lat, start_lng, end_lat, end_lng)

\* LyftService.get_cost_estimates from line 82 on, once the cost request has
\* been answered.
get_cost_estimates(reply, start_lat, start_lng, end_lat, end_lng) ==
    LET r == cost_estimates_try(reply, start_lat, start_lng, end_lat, end_lng)
    IN  IF r = Raise
        THEN _mock_cost_estimates(start_lat, start_lng, end_lat, end_lng)
        ELSE r


(***************************************************************************)
(* Aggregation Orchestrator: the pure parts                                *)
(***************************************************************************)

EmptyDict == [k \in {} |-> None]

\* routes_data.get(mode, {}).get('duration_minutes')
duration_minutes_of(routes_data, mode) ==
    IF mode \in DOMAIN routes_data THEN Num(routes_data[mode].duration_minutes)
    ELSE None

\* The test of line 46 left out: a failed mode is stored as None.
directions_loop_body_placeholder(routes_data, reply, mode) ==
    (mode :> _get_directions(reply, mode)) @@ routes_data

\* Lines 44-53: one iteration of the loop over modes.
directions_loop_body(routes_data, reply, mode) ==
    LET route_info == _get_directions(reply, mode)
    IN  IF route_info = Raise THEN routes_data
        ELSE IF Truthy(route_info) THEN (mode :> route_info) @@ routes_data
        ELSE routes_data

MTA_PRICE == 290

\* Lines 119-138.
initial_pricing_data(routes_data) ==
    [rideshare |->
        [uber |-> [price |-> None, duration |-> None, status |-> "unavailable"],
         lyft |-> [price |-> None, duration |-> None, status |-> "unavailable"]],
     transit |->
        [mta |-> [price |-> Num(MTA_PRICE),
                  duration |-> duration_minutes_of(routes_data, "transit"),
                  status |-> IF "transit" \in DOMAIN routes_data
                             THEN "available" ELSE "unavailable"]],
     micromobility |->
        [citi_bike |-> [price |-> None,
                        duration |-> duration_minutes_of(routes_data, "bicycling"),
                        status |-> IF "bicycling" \in DOMAIN routes_data
                                   THEN "pending" ELSE "unavailable"]]]

\* Lines 184-213: estimates is what get_price_estimates returned, or Raise.
uber_pricing_try(estimates, driving_duration) ==
    IF estimates = Raise THEN Raise
    ELSE LET products == estimates.products
         IN  IF HasKey(products, K_uberx)
             THEN LET product == Get(products, K_uberx)
                      price_range == price_range_fmt(product.low_estimate,
                                                     product.high_estimate)
                  IN  IF price_range = Raise THEN Raise
                      ELSE [price |-> product.low_estimate,
                            price_range |-> price_range,
                            duration |-> driving_duration,
                            status |-> product.status,
                            service |-> "uber",
                            product_type |-> K_uberx]
             ELSE IF products # <<>>
             THEN LET first_product == products[1].val
                  IN  [price |-> first_product.low_estimate,
                       price_range |-> first_product.estimate,
                       duration |-> driving_duration,
                       status |-> first_product.status,
                       service |-> "uber",
                       product_type |-> products[1].key]
             ELSE [price |-> None, duration |-> driving_duration,
                   status |-> "unavailable"]

_get_uber_pricing(estimates, driving_duration) ==
    LET r == uber_pricing_try(estimates, driving_duration)
    IN  IF r = Raise
        THEN [price |-> None, duration |-> driving_duration, status |-> "error"]
        ELSE r

\* Lines 223-252.
lyft_pricing_try(estimates, driving_duration) ==
    IF estimates = Raise THEN Raise
    ELSE LET products == estimates.products
         IN  IF HasKey(products, K_lyft_standard)
             THEN LET product == Get(products, K_lyft_standard)
                      price_range == price_range_fmt(product.estimated_cost_cents_min,
                                                     product.estimated_cost_cents_max)
                  IN  IF price_range = Raise THEN Raise
                      ELSE [price |-> product.estimated_cost_cents_min,
                            price_range |-> price_range,
                            duration |-> driving_duration,
                            status |-> product.status,
                            service |-> "lyft",
                            product_type |-> K_lyft_standard]
             ELSE IF products # <<>>
             THEN LET first_product == products[1].val
                      price_range ==
                          price_range_fmt(first_product.estimated_cost_cents_min,
                                          first_product.estimated_cost_cents_max)
                  IN  IF price_range = Raise THEN Raise
                      ELSE [price |-> first_product.estimated_cost_cents_min,
                            price_range |-> price_range,
                            duration |-> driving_duration,
                            status |-> first_product.status,
                            service |-> "lyft",
                            product_type |-> products[1].key]
             ELSE [price |-> None, duration |-> driving_duration,
                   status |-> "unavailable"]

_get_lyft_pricing(estimates, driving_duration) ==
    LET r == lyft_pricing_try(estimates, driving_duration)
    IN  IF r = Raise
        THEN [price |-> None, duration |-> driving_duration, status |-> "error"]
        ELSE r

\* An all-or-nothing join: one failed branch leaves both entries as they were.
gather_results_all_or_nothing(pricing_data, uber_pricing, lyft_pricing) ==
    IF uber_pricing = Raise \/ lyft_pricing = Raise
       \/ uber_pricing.status = "error" \/ lyft_pricing.status = "error"
    THEN pricing_data
    ELSE [pricing_data EXCEPT !.rideshare.uber = uber_pricing,
                              !.rideshare.lyft = lyft_pricing]

\* Lines 157-173: asyncio.gather(..., return_exceptions=True) hands each task's
\* own outcome over; an outcome that is an exception leaves the entry as it was.
gather_results(pricing_data, uber_pricing, lyft_pricing) ==
    [pricing_data EXCEPT
        !.rideshare.uber = IF uber_pricing = Raise THEN @ ELSE uber_pricing,
        !.rideshare.lyft = IF lyft_pricing = Raise THEN @ ELSE lyft_pricing]

\* The destination passed as the start and the origin as the end.
pricing_args_swapped(origin_coords, destination_coords) ==
    [start_lat |-> destination_coords.lat, start_lng |-> destination_coords.lng,
     end_lat |-> origin_coords.lat, end_lng |-> origin_coords.lng]

\* google_maps.py lines 185-186 and 224-225: the arguments of the provider
\* call.
pricing_args(origin_coords, destination_coords) ==
    [start_lat |-> origin_coords.lat, start_lng |-> origin_coords.lng,
     end_lat |-> destination_coords.lat, end_lng |-> destination_coords.lng]

\* "and" in place of the "or" of line 141.
coordinates_missing_both(origin_coords, destination_coords) ==
    ~Truthy(origin_coords) /\ ~Truthy(destination_coords)

\* Line 141: not origin_coords or not destination_coords.
coordinates_missing(origin_coords, destination_coords) ==
    ~Truthy(origin_coords) \/ ~Truthy(destination_coords)

\* Lines 65-71.
build_result(origin, destination, routes_data, pricing_data, timestamp) ==
    [origin |-> origin,
     destination |-> destination,
     routes |-> routes_data,
     pricing |-> pricing_data,
     timestamp |-> timestamp]


(***************************************************************************)
(* The service instance and one request at a time on it                    *)
(***************************************************************************)

VARIABLES
    settings,            \* Settings: the two optional credential pairs
    access_token,        \* LyftService.access_token
    pc,                  \* where get_multi_modal_routes stands
    origin, destination, \* its arguments
    mode_i,              \* index into modes of the loop at line 43
    routes_data,
    origin_coords,
    destination_coords,
    pricing_data,
    uber_task,           \* the task of _get_uber_pricing under gather
    lyft_task,           \* the task of _get_lyft_pricing under gather
    result,              \* the value returned, None before the return
    dir_ok,              \* history: modes whose directions reply was usable
    requests,            \* history: provider requests sent during this call
    authenticated,       \* history: providers a token reply gave a token to
    failed               \* history: kinds of Lyft request that have failed

\* Calls made on the LyftService instance directly, outside an aggregate
\* request.
VARIABLES
    calls,               \* the coroutines running a method of the instance
    n_calls              \* how many calls have been started

client_vars == <<calls, n_calls>>

\* _process_transit_route applied to one route of a directions reply.
VARIABLES
    raw_route,           \* the route passed in
    processed_route,     \* what the call returned, Absent before the call
    route_trace          \* history: the values computed on the way

route_vars == <<raw_route, processed_route, route_trace>>

\* One call of TransitService.get_transit_directions.
VARIABLES
    transit_pc,          \* where get_transit_directions stands
    upstream,            \* the reply of the directions request
    transit_data         \* the value returned, None before the return

transit_vars == <<transit_pc, upstream, transit_data>>

\* The two product-name normalizers applied to one name.
VARIABLES
    product_name,        \* the name passed in
    product_keys         \* the keys returned, None before the calls

normalizer_vars == <<product_name, product_keys>>

\* The synthetic estimators of the two providers applied to two trips.
VARIABLES
    mock_args,           \* the coordinates of the two trips
    mock_estimates       \* what the estimators returned, None before the calls

estimator_vars == <<mock_args, mock_estimates>>

\* One call of GoogleMapsService._get_directions.
VARIABLES
    directions_mode,     \* the mode passed in, None before the call
    directions_response, \* the reply of the directions request
    directions_ret       \* the value returned, Absent before the return

directions_vars == <<directions_mode, directions_response, directions_ret>>

\* The GET /geocode handler and the geocode_address call it makes.
VARIABLES
    api_key,             \* GOOGLE_MAPS_API_KEY of the environment
    geocode_pc,          \* where the handler stands
    address,             \* the address of the request
    geocode_calls,       \* history: upstream requests sent by this invocation
    geocode_response,    \* the reply of the geocoding request
    geocode_ret,         \* what geocode_address returned
    http_response        \* what the handler answered with

geocode_vars ==
    <<api_key, geocode_pc, address, geocode_calls, geocode_response, geocode_ret,
      http_response>>

\* TransitService.get_transit_summary on top of get_transit_directions.
VARIABLES
    transit_summary      \* the value returned, None before the return

summary_vars == <<transit_summary>>

\* One SimpleCache instance and its clock.
VARIABLES
    _cache,              \* self._cache
    _timestamps,         \* self._timestamps
    now,                 \* datetime.now(), in seconds
    cache_ret,           \* the last operation and what it returned
    cache_log            \* history: the operations so far, with their times

cache_vars == <<_cache, _timestamps, now, cache_ret, cache_log>>

\* Two aggregate calls on one service instance against a fixed upstream.
VARIABLES
    fixed_upstream,      \* the reply the upstream gives to each request
    responses            \* the responses of the calls so far

repeat_vars == <<fixed_upstream, responses>>

extra_vars ==
    <<estimator_vars, directions_vars, geocode_vars, summary_vars, cache_vars,
      repeat_vars>>

aggregate_vars ==
    <<pc, origin, destination, mode_i, routes_data, origin_coords,
      destination_coords, pricing_data, uber_task, lyft_task, result, dir_ok,
      requests, authenticated, failed>>

other_vars == <<client_vars, route_vars, transit_vars, normalizer_vars, extra_vars>>

vars == <<settings, access_token, aggregate_vars, other_vars>>

Configured == Text("configured")

\* The coroutines that may run a method of one LyftService instance at the
\* same time.
CallIds == {"a", "b"}

\* A coroutine that runs no method.
NoCall == [pc |-> "idle", method |-> "none", token |-> None, ret |-> None]

NoCalls == [c \in CallIds |-> NoCall]

\* No call runs on the Lyft client.
client_idle == calls = NoCalls /\ n_calls = 0

\* No route is being processed.
route_idle ==
    /\ raw_route = [legs |-> <<>>]
    /\ processed_route = Absent
    /\ route_trace = None

\* No transit directions call runs.
transit_idle == transit_pc = "idle" /\ upstream = None /\ transit_data = None

\* No name is being normalized.
normalizer_idle == product_name = <<>> /\ product_keys = None

\* No synthetic estimate is being computed.
estimator_idle == mock_args = None /\ mock_estimates = None

\* No _get_directions call runs.
directions_idle ==
    /\ directions_mode = "none"
    /\ directions_response = None
    /\ directions_ret = Absent

\* No GET /geocode request is being handled.
geocode_idle ==
    /\ api_key = None
    /\ geocode_pc = "idle"
    /\ address = None
    /\ geocode_calls = 0
    /\ geocode_response = None
    /\ geocode_ret = None
    /\ http_response = None

\* No get_transit_summary call has returned.
summary_idle == transit_summary = None

\* The cache is empty and unused.
cache_idle ==
    /\ _cache = <<>>
    /\ _timestamps = <<>>
    /\ now = 0
    /\ cache_ret = None
    /\ cache_log = <<>>

\* No repeated aggregate call runs.
repeat_idle == fixed_upstream = None /\ responses = <<>>

extra_idle ==
    /\ estimator_idle
    /\ directions_idle
    /\ geocode_idle
    /\ summary_idle
    /\ cache_idle
    /\ repeat_idle

Settings ==
    [uber_client_id : {None, Configured},
     uber_client_secret : {None, Configured},
     lyft_client_id : {None, Configured},
     lyft_client_secret : {None, Configured}]

\* UberService.__init__: the client id is used as the server token.
server_token == settings.uber_client_id

Requests ==
    {<<Text("Times Square, New York, NY"), Text("Central Park, New York, NY")>>}

\* datetime.now().isoformat() is read from the environment.
Timestamps == {Text("2025-01-01T12:00:00"), Text("2025-01-01T12:00:05")}

\* A task of the gather: where it stands, the coordinates it passed to the
\* provider client (args), what the client returned to it (estimates), what it
\* returned (ret), whether its try block raised, and the replies its requests
\* got.
NoTask ==
    [pc |-> "none", args |-> None, estimates |-> None, ret |-> None,
     raised |-> FALSE, token_reply |-> None, reply |-> None]

\* A directions reply from which the first leg of the first route can be read.
DirectionsUsable(reply) ==
    /\ reply # Throws
    /\ reply.status = "OK"
    /\ Len(reply.routes) > 0
    /\ Len(reply.routes[1].legs) > 0
    /\ reply.routes[1].legs[1] # BadLeg

Init ==
    /\ settings \in Settings
    /\ access_token = None
    /\ pc = "idle"
    /\ origin = None
    /\ destination = None
    /\ mode_i = 1
    /\ routes_data = EmptyDict
    /\ origin_coords = None
    /\ destination_coords = None
    /\ pricing_data = None
    /\ uber_task = NoTask
    /\ lyft_task = NoTask
    /\ result = None
    /\ dir_ok = {}
    /\ requests = {}
    /\ authenticated = {}
    /\ failed = {}
    /\ client_idle
    /\ route_idle
    /\ transit_idle
    /\ normalizer_idle
    /\ extra_idle

\* A caller invokes get_multi_modal_routes(origin, destination): lines 35-41.
get_multi_modal_routes ==
    /\ pc = "idle"
    /\ \E r \in Requests :
        /\ origin' = r[1]
        /\ destination' = r[2]
    /\ pc' = "directions"
    /\ mode_i' = 1
    /\ routes_data' = EmptyDict
    /\ UNCHANGED <<settings, access_token, origin_coords, destination_coords,
                   pricing_data, uber_task, lyft_task, result, dir_ok, requests,
                   authenticated, failed>>
    /\ UNCHANGED other_vars

\* Lines 43-53: the directions call of the next mode is answered.
directions_reply ==
    /\ pc = "directions"
    /\ \E reply \in DirectionsReplies(modes[mode_i]) :
        /\ routes_data' = directions_loop_body(routes_data, reply, modes[mode_i])
        /\ dir_ok' = IF DirectionsUsable(reply) THEN dir_ok \cup {modes[mode_i]}
                     ELSE dir_ok
    /\ IF mode_i < Len(modes)
       THEN mode_i' = mode_i + 1 /\ pc' = "directions"
       ELSE mode_i' = mode_i /\ pc' = "geocode_origin"
    /\ UNCHANGED <<settings, access_token, origin, destination, origin_coords,
                   destination_coords, pricing_data, uber_task, lyft_task, result,
                   requests, authenticated, failed>>
    /\ UNCHANGED other_vars

\* Line 56.  An exception leaving geocode_address leaves the whole call.
geocode_origin_reply ==
    /\ pc = "geocode_origin"
    /\ \E reply \in GeocodeReplies :
        LET coords == geocode_address(reply)
        IN  IF coords = Raise
            THEN pc' = "raised" /\ origin_coords' = origin_coords
            ELSE pc' = "geocode_destination" /\ origin_coords' = coords
    /\ UNCHANGED <<settings, access_token, origin, destination, mode_i, routes_data,
                   destination_coords, pricing_data, uber_task, lyft_task, result,
                   dir_ok, requests, authenticated, failed>>
    /\ UNCHANGED other_vars

\* Line 57.
geocode_destination_reply ==
    /\ pc = "geocode_destination"
    /\ \E reply \in GeocodeReplies :
        LET coords == geocode_address(reply)
        IN  IF coords = Raise
            THEN pc' = "raised" /\ destination_coords' = destination_coords
            ELSE pc' = "pricing" /\ destination_coords' = coords
    /\ UNCHANGED <<settings, access_token, origin, destination, mode_i, routes_data,
                   origin_coords, pricing_data, uber_task, lyft_task, result,
                   dir_ok, requests, authenticated, failed>>
    /\ UNCHANGED other_vars

\* The duration read under the wrong mode key.
driving_duration_of_transit == duration_minutes_of(routes_data, "transit")

\* Line 147.
driving_duration == duration_minutes_of(routes_data, "driving")

\* Lines 60-62 and 119-155: _get_rideshare_pricing up to the gather, and the
\* return of lines 65-73 when it returns without gathering.
_get_rideshare_pricing ==
    /\ pc = "pricing"
    /\ pricing_data' = initial_pricing_data(routes_data)
    /\ IF coordinates_missing(origin_coords, destination_coords)
       THEN /\ \E timestamp \in Timestamps :
                result' = build_result(origin, destination, routes_data,
                                       pricing_data', timestamp)
            /\ pc' = "done"
            /\ UNCHANGED <<uber_task, lyft_task>>
       ELSE /\ uber_task' = [NoTask EXCEPT !.pc = "created"]
            /\ lyft_task' = [NoTask EXCEPT !.pc = "created"]
            /\ pc' = "gather"
            /\ result' = result
    /\ UNCHANGED <<settings, access_token, origin, destination, mode_i, routes_data,
                   origin_coords, destination_coords, dir_ok, requests,
                   authenticated, failed>>
    /\ UNCHANGED other_vars

\* origin_coords['lat'] and the like (lines 185-186, 224-225) raise on None.
coords_subscriptable == origin_coords # None /\ destination_coords # None

\* The Uber task returns: google_maps.py lines 189-217.
uber_task_done(task, estimates, reply) ==
    [task EXCEPT
        !.pc = "done",
        !.estimates = estimates,
        !.ret = _get_uber_pricing(estimates, driving_duration),
        !.raised = (uber_pricing_try(estimates, driving_duration) = Raise),
        !.reply = reply]

\* The Uber task runs to its first await: google_maps.py lines 183-187 and
\* uber_service.py lines 41-48.
uber_task_start ==
    /\ pc = "gather"
    /\ uber_task.pc = "created"
    /\ IF ~coords_subscriptable
       THEN /\ uber_task' = uber_task_done(uber_task, Raise, None)
            /\ requests' = requests
       ELSE LET args == pricing_args(origin_coords, destination_coords)
                task == [uber_task EXCEPT !.args = args]
            IN  IF server_token_missing(server_token)
                THEN /\ uber_task' = uber_task_done(task,
                            get_price_estimates(server_token, None,
                                                args.start_lat, args.start_lng,
                                                args.end_lat, args.end_lng),
                            None)
                     /\ requests' = requests
                ELSE /\ uber_task' = [task EXCEPT !.pc = "await_price"]
                     /\ requests' = requests \cup {"uber_price"}
    /\ UNCHANGED <<settings, access_token, pc, origin, destination, mode_i,
                   routes_data, origin_coords, destination_coords, pricing_data,
                   lyft_task, result, dir_ok, authenticated, failed>>
    /\ UNCHANGED other_vars

\* The price request is answered: uber_service.py lines 64-73, then
\* google_maps.py lines 189-217.
uber_price_reply ==
    /\ pc = "gather"
    /\ uber_task.pc = "await_price"
    /\ \E reply \in UberPriceReplies :
        uber_task' = uber_task_done(uber_task,
            get_price_estimates(server_token, reply,
                                uber_task.args.start_lat, uber_task.args.start_lng,
                                uber_task.args.end_lat, uber_task.args.end_lng),
            reply)
    /\ UNCHANGED <<settings, access_token, pc, origin, destination, mode_i,
                   routes_data, origin_coords, destination_coords, pricing_data,
                   lyft_task, result, dir_ok, requests, authenticated, failed>>
    /\ UNCHANGED other_vars

\* Line 80 of lyft_service.py: the mock for the arguments of the call.
lyft_mock_for(args) ==
    _mock_cost_estimates(args.start_lat, args.start_lng, args.end_lat, args.end_lng)

\* Lines 80, 106, 110 of lyft_service.py.
lyft_mock ==
    _mock_cost_estimates(origin_coords.lat, origin_coords.lng,
                         destination_coords.lat, destination_coords.lng)

\* The Lyft task returns: google_maps.py lines 228-256.
lyft_task_done(task, estimates, reply) ==
    [task EXCEPT
        !.pc = "done",
        !.estimates = estimates,
        !.ret = _get_lyft_pricing(estimates, driving_duration),
        !.raised = (lyft_pricing_try(estimates, driving_duration) = Raise),
        !.reply = reply]

\* The Lyft task runs to its first await: google_maps.py lines 222-226 and
\* lyft_service.py lines 77-86 and 34-39.
lyft_task_start ==
    /\ pc = "gather"
    /\ lyft_task.pc = "created"
    /\ IF ~coords_subscriptable
       THEN /\ lyft_task' = lyft_task_done(lyft_task, Raise, None)
            /\ requests' = requests
       ELSE LET args == pricing_args(origin_coords, destination_coords)
                task == [lyft_task EXCEPT !.args = args]
            IN  IF ~token_needed(access_token)
                THEN /\ lyft_task' = [task EXCEPT !.pc = "await_cost"]
                     /\ requests' = requests \cup {"lyft_cost"}
                ELSE IF credentials_missing(settings.lyft_client_id,
                                            settings.lyft_client_secret)
                THEN /\ lyft_task' = lyft_task_done(task, lyft_mock_for(args), None)
                     /\ requests' = requests
                ELSE /\ lyft_task' = [task EXCEPT !.pc = "await_token"]
                     /\ requests' = requests \cup {"lyft_token"}
    /\ UNCHANGED <<settings, access_token, pc, origin, destination, mode_i,
                   routes_data, origin_coords, destination_coords, pricing_data,
                   uber_task, result, dir_ok, authenticated, failed>>
    /\ UNCHANGED other_vars

\* The token request is answered: lyft_service.py lines 50-61 and 79-86.
lyft_token_reply ==
    /\ pc = "gather"
    /\ lyft_task.pc = "await_token"
    /\ \E reply \in LyftTokenReplies :
        LET got == _get_access_token(settings.lyft_client_id,
                                     settings.lyft_client_secret, access_token, reply)
            task == [lyft_task EXCEPT !.token_reply = reply]
        IN  /\ access_token' = got.access_token
            /\ IF ~Truthy(got.token)
               THEN /\ lyft_task' = lyft_task_done(task, lyft_mock_for(task.args), None)
                    /\ requests' = requests
                    /\ failed' = failed \cup {"token"}
                    /\ authenticated' = authenticated
               ELSE /\ lyft_task' = [task EXCEPT !.pc = "await_cost"]
                    /\ requests' = requests \cup {"lyft_cost"}
                    /\ failed' = failed
                    /\ authenticated' = authenticated \cup {"lyft"}
    /\ UNCHANGED <<settings, pc, origin, destination, mode_i, routes_data,
                   origin_coords, destination_coords, pricing_data, uber_task,
                   result, dir_ok>>
    /\ UNCHANGED other_vars

\* A reply that makes a pricing request count as failed: an exception or a
\* status other than 200.
RequestFailed(reply) == reply = Throws \/ reply.status_code # 200

\* The cost request is answered: lyft_service.py lines 101-110, then
\* google_maps.py lines 228-256.
lyft_cost_reply ==
    /\ pc = "gather"
    /\ lyft_task.pc = "await_cost"
    /\ \E reply \in LyftCostReplies :
        /\ lyft_task' = lyft_task_done(lyft_task,
               get_cost_estimates(reply, lyft_task.args.start_lat,
                                  lyft_task.args.start_lng, lyft_task.args.end_lat,
                                  lyft_task.args.end_lng),
               reply)
        /\ failed' = IF RequestFailed(reply) THEN failed \cup {"cost"} ELSE failed
    /\ UNCHANGED <<settings, access_token, pc, origin, destination, mode_i,
                   routes_data, origin_coords, destination_coords, pricing_data,
                   uber_task, result, dir_ok, requests, authenticated>>
    /\ UNCHANGED other_vars

\* Lines 157-178 and 65-73: gather returns once both tasks are done.
gather_done ==
    /\ pc = "gather"
    /\ uber_task.pc = "done"
    /\ lyft_task.pc = "done"
    /\ pricing_data' = gather_results(pricing_data, uber_task.ret, lyft_task.ret)
    /\ \E timestamp \in Timestamps :
        result' = build_result(origin, destination, routes_data, pricing_data',
                               timestamp)
    /\ pc' = "done"
    /\ UNCHANGED <<settings, access_token, origin, destination, mode_i, routes_data,
                   origin_coords, destination_coords, uber_task, lyft_task, dir_ok,
                   requests, authenticated, failed>>
    /\ UNCHANGED other_vars

\* The caller has the response; the locals of the call are gone and the
\* instance is ready for the next call.
return_result ==
    /\ pc = "done"
    /\ pc' = "idle"
    /\ origin' = None
    /\ destination' = None
    /\ mode_i' = 1
    /\ routes_data' = EmptyDict
    /\ origin_coords' = None
    /\ destination_coords' = None
    /\ pricing_data' = None
    /\ uber_task' = NoTask
    /\ lyft_task' = NoTask
    /\ result' = None
    /\ dir_ok' = {}
    /\ requests' = {}
    /\ UNCHANGED <<settings, access_token, authenticated, failed>>
    /\ UNCHANGED other_vars

Next ==
    \/ get_multi_modal_routes
    \/ directions_reply
    \/ geocode_origin_reply
    \/ geocode_destination_reply
    \/ _get_rideshare_pricing
    \/ uber_task_start
    \/ uber_price_reply
    \/ lyft_task_start
    \/ lyft_token_reply
    \/ lyft_cost_reply
    \/ gather_done
    \/ return_result

Spec == Init /\ [][Next]_vars


(***************************************************************************)
(* The Lyft client called directly: get_cost_estimates,                    *)
(* get_available_ride_types and get_eta_estimates on one instance          *)
(***************************************************************************)

\* How many calls are started on the instance.
MaxCalls == 3

Methods == {"get_cost_estimates", "get_available_ride_types", "get_eta_estimates"}

\* One iteration of the loop of _process_available_ride_types (lines 231-239).
process_ride_type(ride_types, ride_type) ==
    IF ride_types = Raise \/ ride_type = NotDict THEN Raise
    ELSE [list |-> Append(ride_types.list,
             [ride_type |-> GetOr(ride_type.ride_type, None),
              display_name |-> GetOr(ride_type.display_name, None),
              max_passengers |-> GetOr(ride_type.seats, None)])]

RECURSIVE process_ride_types(_, _)
process_ride_types(ride_types, items) ==
    IF items = <<>> THEN ride_types
    ELSE process_ride_types(process_ride_type(ride_types, Head(items)), Tail(items))

\* image_url, pricing_details and service_area are copied through and read
\* by nothing; they are left out.
_process_available_ride_types(data) ==
    IF data = NotDict THEN Raise
    ELSE process_ride_types([list |-> <<>>],
             IF "ride_types" \in DOMAIN data THEN data.ride_types ELSE <<>>)

_mock_available_ride_types ==
    [list |-> <<[ride_type |-> Str(K_lyft), display_name |-> Str(<<"L", "y", "f", "t">>),
                 max_passengers |-> Num(4)],
                [ride_type |-> Str(K_lyft_bike),
                 display_name |-> Str(<<"L", "y", "f", "t", " ", "B", "i", "k", "e">>),
                 max_passengers |-> Num(1)]>>]

\* One iteration of the loop of _process_eta_estimates (lines 247-256).
process_eta(processed, eta) ==
    IF processed = Raise \/ eta = NotDict THEN Raise
    ELSE LET ride_type == GetOr(eta.ride_type, None)
         IN  [etas |-> Put(processed.etas, _normalize_ride_type_name(ride_type),
                 [ride_type |-> ride_type,
                  display_name |-> GetOr(eta.display_name, ride_type),
                  eta_seconds |-> GetOr(eta.eta_seconds, None),
                  is_valid_estimate |-> GetOr(eta.is_valid_estimate, Bool(TRUE))])]

RECURSIVE process_etas(_, _)
process_etas(processed, items) ==
    IF items = <<>> THEN processed
    ELSE process_etas(process_eta(processed, Head(items)), Tail(items))

_process_eta_estimates(data) ==
    IF data = NotDict THEN Raise
    ELSE process_etas([etas |-> <<>>],
             IF "eta_estimates" \in DOMAIN data THEN data.eta_estimates ELSE <<>>)

_mock_eta_estimates ==
    [etas |-> <<[key |-> K_lyft_standard,
                 val |-> [ride_type |-> Str(K_lyft),
                          display_name |-> Str(<<"L", "y", "f", "t">>),
                          eta_seconds |-> Num(360), is_valid_estimate |-> Bool(TRUE)]],
                [key |-> K_lyft_bike,
                 val |-> [ride_type |-> Str(K_lyft_bike),
                          display_name |-> Str(<<"L", "y", "f", "t", " ", "B", "i", "k", "e">>),
                          eta_seconds |-> Num(120), is_valid_estimate |-> Bool(TRUE)]]>>]

\* The replies of GET /ridetypes.
LyftRideTypeReplies ==
    {Throws,
     [status_code |-> 500, json |-> [error |-> "server error"]],
     [status_code |-> 200, json |-> NotDict],
     [status_code |-> 200,
      json |-> [ride_types |-> <<[ride_type |-> Str(K_lyft_xl),
                                  display_name |-> Str(<<"X", "L">>),
                                  seats |-> Num(6)]>>]]}

\* The replies of GET /eta.
LyftEtaReplies ==
    {Throws,
     [status_code |-> 500, json |-> [error |-> "server error"]],
     [status_code |-> 200, json |-> NotDict],
     [status_code |-> 200,
      json |-> [eta_estimates |-> <<[ride_type |-> Str(K_lyft),
                                     display_name |-> Absent,
                                     eta_seconds |-> Num(240),
                                     is_valid_estimate |-> Absent]>>]]}

\* The token endpoint issues a new token at every successful request.
LyftFreshTokenReplies ==
    LyftTokenReplies \cup {[status_code |-> 200, json |-> [access_token |-> Text("token-2")]]}

\* What a method returns without a token (lines 80, 126, 170), after a
\* status other than 200 and after an exception.
mock_of(method) ==
    IF method = "get_cost_estimates"
    THEN _mock_cost_estimates(TimesSquare.lat, TimesSquare.lng,
                              CentralPark.lat, CentralPark.lng)
    ELSE IF method = "get_available_ride_types" THEN _mock_available_ride_types
    ELSE _mock_eta_estimates

MethodReplies(method) ==
    IF method = "get_cost_estimates" THEN LyftCostReplies
    ELSE IF method = "get_available_ride_types" THEN LyftRideTypeReplies
    ELSE LyftEtaReplies

\* Lines 128-154 (and 172-198) once the request has been answered.
method_try(method, reply) ==
    IF reply = Throws THEN Raise
    ELSE IF reply.status_code = 200
    THEN IF method = "get_available_ride_types"
         THEN _process_available_ride_types(reply.json)
         ELSE _process_eta_estimates(reply.json)
    ELSE mock_of(method)

method_return(method, reply) ==
    IF method = "get_cost_estimates"
    THEN get_cost_estimates(reply, TimesSquare.lat, TimesSquare.lng,
                            CentralPark.lat, CentralPark.lng)
    ELSE IF method_try(method, reply) = Raise THEN mock_of(method)
    ELSE method_try(method, reply)

LyftClientInit ==
    /\ settings \in {st \in Settings :
                        st.uber_client_id = None /\ st.uber_client_secret = None}
    /\ access_token = None
    /\ pc = "idle"
    /\ origin = None
    /\ destination = None
    /\ mode_i = 1
    /\ routes_data = EmptyDict
    /\ origin_coords = None
    /\ destination_coords = None
    /\ pricing_data = None
    /\ uber_task = NoTask
    /\ lyft_task = NoTask
    /\ result = None
    /\ dir_ok = {}
    /\ requests = {}
    /\ authenticated = {}
    /\ failed = {}
    /\ client_idle
    /\ route_idle
    /\ transit_idle
    /\ normalizer_idle
    /\ extra_idle

\* A coroutine calls a method and runs to its first await: lines 77-86,
\* 123-132, 167-176 and 34-39.  The Authorization header is built from
\* self.access_token when the request is made.
call_start(c) ==
    /\ calls[c].pc \in {"idle", "done"}
    /\ n_calls < MaxCalls
    /\ n_calls' = n_calls + 1
    /\ \E method \in Methods :
        calls' = [calls EXCEPT ![c] =
            IF ~token_needed(access_token)
            THEN [pc |-> "await_reply", method |-> method,
                  token |-> access_token, ret |-> None]
            ELSE IF credentials_missing(settings.lyft_client_id,
                                        settings.lyft_client_secret)
            THEN [pc |-> "done", method |-> method, token |-> None,
                  ret |-> mock_of(method)]
            ELSE [pc |-> "await_token", method |-> method, token |-> None,
                  ret |-> None]]
    /\ UNCHANGED <<settings, access_token, aggregate_vars, route_vars, transit_vars,
                   normalizer_vars,
                   extra_vars>>

\* The token request of a coroutine is answered: lines 50-61, then the
\* caller's lines 79-86 (125-132, 169-176).
call_token_reply(c) ==
    /\ calls[c].pc = "await_token"
    /\ \E reply \in LyftFreshTokenReplies :
        LET got == _get_access_token(settings.lyft_client_id,
                                     settings.lyft_client_secret, access_token, reply)
        IN  /\ access_token' = got.access_token
            /\ calls' = [calls EXCEPT ![c] =
                   IF ~Truthy(got.token)
                   THEN [calls[c] EXCEPT !.pc = "done",
                                         !.ret = mock_of(calls[c].method)]
                   ELSE [calls[c] EXCEPT !.pc = "await_reply",
                                         !.token = got.access_token]]
    /\ UNCHANGED <<settings, aggregate_vars, n_calls, route_vars, transit_vars,
                   normalizer_vars,
                   extra_vars>>

\* The request of a coroutine is answered and the method returns: lines
\* 101-110, 145-154, 189-198.
call_reply(c) ==
    /\ calls[c].pc = "await_reply"
    /\ \E reply \in MethodReplies(calls[c].method) :
        calls' = [calls EXCEPT ![c] =
            [calls[c] EXCEPT !.pc = "done",
                             !.ret = method_return(calls[c].method, reply)]]
    /\ UNCHANGED <<settings, access_token, aggregate_vars, n_calls, route_vars,
                   transit_vars, normalizer_vars,
                   extra_vars>>

LyftClientNext ==
    \/ \E c \in CallIds : call_start(c)
    \/ \E c \in CallIds : call_token_reply(c)
    \/ \E c \in CallIds : call_reply(c)

LyftClientSpec == LyftClientInit /\ [][LyftClientNext]_vars

(***************************************************************************)
(* TransitService: one route of the directions reply                       *)
(***************************************************************************)

\* Class attributes, in cents.
SUBWAY_FARE == 290
EXPRESS_BUS_FARE == 700

T_TRANSIT == <<"T", "R", "A", "N", "S", "I", "T">>
T_WALKING == <<"W", "A", "L", "K", "I", "N", "G">>
T_BICYCLING == <<"B", "I", "C", "Y", "C", "L", "I", "N", "G">>
T_UNKNOWN == <<"U", "N", "K", "N", "O", "W", "N">>
T_BUS == <<"B", "U", "S">>
T_SUBWAY == <<"S", "U", "B", "W", "A", "Y">>
T_HEAVY_RAIL == <<"H", "E", "A", "V", "Y", "_", "R", "A", "I", "L">>
M_transit == <<"t", "r", "a", "n", "s", "i", "t">>
M_walking == <<"w", "a", "l", "k", "i", "n", "g">>
S_express == <<"e", "x", "p", "r", "e", "s", "s">>
S_Unknown == <<"U", "n", "k", "n", "o", "w", "n">>

\* One iteration of the loop of _extract_transit_steps (lines 170-192).  The
\* duration text, the instructions, the stops and the headsign are copied
\* through and read by nothing; they are left out.
extract_transit_step(step) ==
    LET travel_mode == GetOr(step.travel_mode, Str(T_UNKNOWN)).str
        transit_details == GetOr(step.transit_details,
                                 [name |-> Absent, short_name |-> Absent,
                                  vehicle_type |-> Absent])
    IN  [mode |-> Lower(travel_mode),
         distance |-> step.distance.text,
         transit |->
            IF travel_mode = T_TRANSIT
            THEN [line_name |-> GetOr(transit_details.name, Str(S_Unknown)),
                  line_short_name |-> GetOr(transit_details.short_name, Str(<<>>)),
                  vehicle_type |-> GetOr(transit_details.vehicle_type, Str(<<>>))]
            ELSE Absent]

\* Lines 165-194.
_extract_transit_steps(steps) ==
    [i \in 1..Len(steps) |-> extract_transit_step(steps[i])]

\* step.get('transit', {}).get(key, default) on a formatted step.
transit_get(step, key, default) ==
    IF step.transit = Absent THEN default ELSE step.transit[key]

\* The express test without the vehicle type.
is_express_any_vehicle(step) ==
    Contains(Lower(transit_get(step, "line_name", Str(<<>>)).str), S_express)

\* The condition of the generator at lines 203-204.
is_express_bus(step) ==
    /\ transit_get(step, "vehicle_type", None) = Str(T_BUS)
    /\ Contains(Lower(transit_get(step, "line_name", Str(<<>>)).str), S_express)

\* Lines 196-223.  currency and note are constants and left out.
_calculate_transit_pricing(steps) ==
    LET has_transit == \E i \in 1..Len(steps) : steps[i].mode = M_transit
        has_express_bus ==
            \E i \in 1..Len(steps) :
                steps[i].mode = M_transit /\ is_express_bus(steps[i])
    IN  IF has_express_bus
        THEN [total_fare |-> EXPRESS_BUS_FARE, fare_type |-> "Express Bus"]
        ELSE IF has_transit
        THEN [total_fare |-> SUBWAY_FARE, fare_type |-> "Standard Fare"]
        ELSE [total_fare |-> 0, fare_type |-> "Free (Walking Only)"]

\* The full name whatever the short name.
line_name_full(step) == transit_get(step, "line_name", None)

\* Line 231: line_short_name or line_name.
line_name_of(step) ==
    LET line_short_name == transit_get(step, "line_short_name", None)
    IN  IF Truthy(line_short_name) THEN line_short_name
        ELSE transit_get(step, "line_name", None)

\* line_name in lines
InList(lines, line_name) == \E i \in 1..Len(lines) : lines[i] = line_name

\* Lines 225-234, the loop from step i on.
RECURSIVE extract_lines_from(_, _, _)
extract_lines_from(steps, i, lines) ==
    IF i > Len(steps) THEN lines
    ELSE extract_lines_from(steps, i + 1,
            IF steps[i].mode = M_transit
               /\ Truthy(line_name_of(steps[i]))
               /\ ~InList(lines, line_name_of(steps[i]))
            THEN Append(lines, line_name_of(steps[i]))
            ELSE lines)

_extract_transit_lines(steps) == extract_lines_from(steps, 1, <<>>)

\* The number of transit steps taken for the number of transfers.
_count_transit_legs(steps) ==
    Cardinality({i \in 1..Len(steps) : steps[i].mode = M_transit})

\* Lines 236-240.
_count_transfers(steps) ==
    Max(0, Cardinality({i \in 1..Len(steps) : steps[i].mode = M_transit}) - 1)

decimal_digits == <<"0", "1", "2", "3", "4", "5", "6", "7", "8", "9">>

IsDigit(c) == \E i \in 1..10 : decimal_digits[i] = c

DigitValue(c) == (CHOOSE i \in 1..10 : decimal_digits[i] = c) - 1

\* str.split()[0]: the first run of characters that are not white space;
\* IndexError when there is none.
RECURSIVE first_token_from(_, _, _)
first_token_from(s, i, token) ==
    IF i > Len(s) THEN token
    ELSE IF s[i] = " "
    THEN IF token = <<>> THEN first_token_from(s, i + 1, token) ELSE token
    ELSE first_token_from(s, i + 1, Append(token, s[i]))

first_token(s) ==
    IF first_token_from(s, 1, <<>>) = <<>> THEN Raise
    ELSE [token |-> first_token_from(s, 1, <<>>)]

RECURSIVE digits_value(_, _)
digits_value(token, acc) ==
    IF token = <<>> THEN acc
    ELSE digits_value(Tail(token), 10 * acc + DigitValue(Head(token)))

\* int(token) on a token of digits; ValueError on a token with any other
\* character ("0.2", "1,200").  Signs and underscores are not modelled.
int_of(token) ==
    IF token = <<>> \/ \E i \in 1..Len(token) : ~IsDigit(token[i]) THEN Raise
    ELSE [int |-> digits_value(token, 0)]

\* str(n) for n >= 0.
RECURSIVE str_of_int(_)
str_of_int(n) ==
    IF n < 10 THEN <<decimal_digits[n + 1]>>
    ELSE Append(str_of_int(n \div 10), decimal_digits[(n % 10) + 1])

\* Lines 244-247: the sum over the walking steps from step i on; the first
\* text that does not parse raises.
RECURSIVE walking_meters_from(_, _, _)
walking_meters_from(steps, i, total) ==
    IF i > Len(steps) THEN [int |-> total]
    ELSE IF steps[i].mode # M_walking THEN walking_meters_from(steps, i + 1, total)
    ELSE LET token == first_token(steps[i].distance.str)
         IN  IF token = Raise THEN Raise
             ELSE IF int_of(token.token) = Raise THEN Raise
             ELSE walking_meters_from(steps, i + 1, total + int_of(token.token).int)

\* f"{walking_meters / 1000:.1f} km": one decimal, the tenths rounded from
\* the hundreds of metres.  The texts of RawSteps sum to whole hundreds, where
\* no tie is rounded.
km_text(walking_meters) ==
    LET tenths == py_round(walking_meters, 100)
    IN  str_of_int(tenths \div 10) \o <<".">> \o str_of_int(tenths % 10)
            \o <<" ", "k", "m">>

\* Lines 242-251.
_calculate_walking_distance(steps) ==
    LET walking_meters == walking_meters_from(steps, 1, 0)
    IN  IF walking_meters = Raise THEN Raise
        ELSE IF walking_meters.int > 1000 THEN Str(km_text(walking_meters.int))
        ELSE Str(str_of_int(walking_meters.int) \o <<" ", "m">>)

\* A route without a leg: route['legs'][0] raises.
NoLegRoute == [legs |-> <<>>]

\* What _process_transit_route has computed when it returns or raises: the
\* values of lines 143-157, None for what was not reached.
NoTrace ==
    [steps |-> None, pricing |-> None, transit_lines |-> None,
     transfers |-> None, walking_distance |-> None]

\* Lines 125-157 up to the return, as the values computed one after the other.
process_route_trace(route) ==
    IF Len(route.legs) = 0 THEN NoTrace
    ELSE LET steps == _extract_transit_steps(route.legs[1].steps)
         IN  [steps |-> [list |-> steps],
              pricing |-> _calculate_transit_pricing(steps),
              transit_lines |-> [list |-> _extract_transit_lines(steps)],
              transfers |-> Num(_count_transfers(steps)),
              walking_distance |-> _calculate_walking_distance(steps)]

\* Lines 125-159: the body of the try block.  The summary, the texts, the
\* addresses and the times of the leg are copied through and left out.
process_route_try(route, route_index) ==
    LET trace == process_route_trace(route)
    IN  IF Len(route.legs) = 0 \/ trace.walking_distance = Raise THEN Raise
        ELSE [route_id |-> route_index,
              distance_meters |-> route.legs[1].distance.value,
              duration_minutes |-> round_div60(route.legs[1].duration.value),
              steps |-> trace.steps.list,
              total_steps |-> Len(trace.steps.list),
              pricing |-> trace.pricing,
              transit_lines |-> trace.transit_lines.list,
              transfers |-> trace.transfers.num,
              walking_distance |-> trace.walking_distance]

\* Lines 123-163.
_process_transit_route(route, route_index) ==
    IF process_route_try(route, route_index) = Raise THEN None
    ELSE process_route_try(route, route_index)

\* The longest step sequence of a route.
MaxSteps == 3

WalkingStep(text) ==
    [travel_mode |-> Str(T_WALKING), distance |-> [text |-> Str(text)],
     transit_details |-> Absent]

TransitStep(name, short_name, vehicle_type) ==
    [travel_mode |-> Str(T_TRANSIT),
     distance |-> [text |-> Str(<<"2", ".", "1", " ", "m", "i">>)],
     transit_details |-> [name |-> name, short_name |-> short_name,
                          vehicle_type |-> vehicle_type]]

Walk400 == WalkingStep(<<"4", "0", "0", " ", "m">>)
Walk200 == WalkingStep(<<"2", "0", "0", " ", "m">>)
Walk900 == WalkingStep(<<"9", "0", "0", " ", "m">>)
\* The text the directions API gives for a walk in a region that uses miles.
WalkMiles == WalkingStep(<<"0", ".", "2", " ", "m", "i">>)

\* A subway line whose name has the word express.
SubwayA ==
    TransitStep(Str(<<"8", " ", "A", "v", " ", "E", "x", "p", "r", "e", "s", "s">>),
                Str(<<"A">>), Str(T_SUBWAY))
BusM15 ==
    TransitStep(Str(<<"F", "i", "r", "s", "t", " ", "A", "v">>),
                Str(<<"M", "1", "5">>), Str(T_BUS))
BusX27 ==
    TransitStep(Str(<<"B", "a", "y", " ", "R", "i", "d", "g", "e", " ",
                      "E", "X", "P", "R", "E", "S", "S">>),
                Str(<<"X", "2", "7">>), Str(T_BUS))
\* A line without a short name.
RailLIRR == TransitStep(Str(<<"L", "I", "R", "R">>), Absent, Str(T_HEAVY_RAIL))
\* A line whose names are both empty.
Unnamed == TransitStep(Str(<<>>), Str(<<>>), Str(T_BUS))
\* A step of another mode.
BikeStep ==
    [travel_mode |-> Str(T_BICYCLING),
     distance |-> [text |-> Str(<<"1", ".", "0", " ", "m", "i">>)],
     transit_details |-> Absent]

RawSteps ==
    {Walk400, Walk200, Walk900, WalkMiles, SubwayA, BusM15, BusX27, RailLIRR,
     Unnamed, BikeStep}

StepSeqs == UNION {[1..n -> RawSteps] : n \in 0..MaxSteps}

\* A route of the directions reply with one leg of the given steps.
RouteOf(steps) ==
    [legs |-> <<[distance |-> [value |-> 4200], duration |-> [value |-> 1530],
                 steps |-> steps]>>]

RawRoutes == {NoLegRoute} \cup {RouteOf(steps) : steps \in StepSeqs}

TransitRouteInit ==
    /\ settings \in {st \in Settings : \A k \in DOMAIN st : st[k] = None}
    /\ access_token = None
    /\ pc = "idle"
    /\ origin = None
    /\ destination = None
    /\ mode_i = 1
    /\ routes_data = EmptyDict
    /\ origin_coords = None
    /\ destination_coords = None
    /\ pricing_data = None
    /\ uber_task = NoTask
    /\ lyft_task = NoTask
    /\ result = None
    /\ dir_ok = {}
    /\ requests = {}
    /\ authenticated = {}
    /\ failed = {}
    /\ client_idle
    /\ raw_route \in RawRoutes
    /\ processed_route = Absent
    /\ route_trace = None
    /\ transit_idle
    /\ normalizer_idle
    /\ extra_idle

\* _process_transit_route(route, 0) is called on the route.
process_transit_route_call ==
    /\ processed_route = Absent
    /\ processed_route' = _process_transit_route(raw_route, 0)
    /\ route_trace' = process_route_trace(raw_route)
    /\ UNCHANGED <<settings, access_token, aggregate_vars, client_vars, raw_route,
                   transit_vars, normalizer_vars,
                   extra_vars>>

TransitRouteNext == process_transit_route_call

TransitRouteSpec == TransitRouteInit /\ [][TransitRouteNext]_vars

(***************************************************************************)
(* TransitService.get_transit_directions                                   *)
(***************************************************************************)

\* The most alternative routes a directions reply holds.
MaxRoutes == 4

\* routes[:3] at line 61.
TOP_ROUTES == 3

\* A value of the reply that is no list: routes[:3] raises.  A list is
\* [list |-> <<...>>].
NotList == [notlist |-> TRUE]

\* raise_for_status() raises for this reply.
HttpError == [http_error |-> TRUE]

GoodRouteA == RouteOf(<<Walk400, SubwayA, Walk200>>)
GoodRouteB == RouteOf(<<BusX27>>)
\* A route that _process_transit_route returns None for.
FailingRoute == RouteOf(<<WalkMiles, BusM15>>)

SampleRoutes == {GoodRouteA, GoodRouteB, FailingRoute}

RouteLists == UNION {[1..n -> SampleRoutes] : n \in 0..MaxRoutes}

\* The replies of GET /directions/json.
TransitReplies ==
    {Throws, HttpError,
     [json |-> NotDict],
     [json |-> [status |-> "ZERO_RESULTS", routes |-> [list |-> <<>>]]],
     [json |-> [status |-> "OK", routes |-> Absent]],
     [json |-> [status |-> "OK", routes |-> NotList]]}
    \cup {[json |-> [status |-> "OK", routes |-> [list |-> routes]]] :
                routes \in RouteLists}

\* Lines 105-121 once the request has been answered.
_fetch_transit_routes(reply) ==
    IF reply = Throws \/ reply = HttpError THEN None
    ELSE IF reply.json = NotDict THEN None
    ELSE IF reply.json.status # "OK" THEN None
    ELSE IF reply.json.routes = Absent THEN [list |-> <<>>]
    ELSE IF reply.json.routes = NotList THEN NotList
    ELSE reply.json.routes

\* The routes the loop runs over, without the cap of line 61.
all_routes(routes) == routes

\* routes[:3]
top_routes(routes) ==
    IF Len(routes) <= TOP_ROUTES THEN routes ELSE SubSeq(routes, 1, TOP_ROUTES)

\* Lines 61-64: the loop from position idx (counted from 0) on.
RECURSIVE process_routes_from(_, _, _)
process_routes_from(routes, idx, processed_routes) ==
    IF idx >= Len(routes) THEN processed_routes
    ELSE process_routes_from(routes, idx + 1,
            IF _process_transit_route(routes[idx + 1], idx) # None
            THEN Append(processed_routes, _process_transit_route(routes[idx + 1], idx))
            ELSE processed_routes)

\* Lines 253-264.  message and provider are constants and left out.
_create_unavailable_response(from_address, to_address, timestamp) ==
    [status |-> "unavailable", origin |-> from_address, destination |-> to_address,
     routes |-> <<>>, route_count |-> 0, timestamp |-> timestamp]

\* Lines 266-277.  The error text and provider are left out.
_create_error_response(from_address, to_address, timestamp) ==
    [status |-> "error", origin |-> from_address, destination |-> to_address,
     routes |-> <<>>, route_count |-> 0, timestamp |-> timestamp]

\* Lines 56-78 once _fetch_transit_routes has returned routes.
get_transit_directions(from_address, to_address, routes, timestamp) ==
    IF routes = None THEN _create_unavailable_response(from_address, to_address, timestamp)
    ELSE IF routes = NotList THEN _create_error_response(from_address, to_address, timestamp)
    ELSE IF routes.list = <<>>
    THEN _create_unavailable_response(from_address, to_address, timestamp)
    ELSE LET processed_routes == process_routes_from(top_routes(routes.list), 0, <<>>)
         IN  [status |-> "available", origin |-> from_address, destination |-> to_address,
              routes |-> processed_routes, route_count |-> Len(processed_routes),
              timestamp |-> timestamp]

transit_origin == Text("Times Square, Manhattan, NY")
transit_destination == Text("Brooklyn Bridge, NY")

TransitInit ==
    /\ settings \in {st \in Settings : \A k \in DOMAIN st : st[k] = None}
    /\ access_token = None
    /\ pc = "idle"
    /\ origin = None
    /\ destination = None
    /\ mode_i = 1
    /\ routes_data = EmptyDict
    /\ origin_coords = None
    /\ destination_coords = None
    /\ pricing_data = None
    /\ uber_task = NoTask
    /\ lyft_task = NoTask
    /\ result = None
    /\ dir_ok = {}
    /\ requests = {}
    /\ authenticated = {}
    /\ failed = {}
    /\ client_idle
    /\ route_idle
    /\ transit_idle
    /\ normalizer_idle
    /\ extra_idle

\* A caller invokes get_transit_directions and the directions request is
\* sent: lines 50-53 and 88-106.
get_transit_directions_call ==
    /\ transit_pc = "idle"
    /\ transit_pc' = "fetch"
    /\ upstream' = None
    /\ transit_data' = None
    /\ UNCHANGED <<settings, access_token, aggregate_vars, client_vars, route_vars,
                   normalizer_vars,
                   extra_vars>>

\* The directions request is answered and the call returns: lines 107-121
\* and 56-78.
fetch_transit_routes_reply ==
    /\ transit_pc = "fetch"
    /\ \E reply \in TransitReplies, timestamp \in Timestamps :
        /\ upstream' = reply
        /\ transit_data' = get_transit_directions(transit_origin, transit_destination,
                               _fetch_transit_routes(reply), timestamp)
    /\ transit_pc' = "done"
    /\ UNCHANGED <<settings, access_token, aggregate_vars, client_vars, route_vars,
                   normalizer_vars,
                   extra_vars>>

\* The caller takes the value returned.
transit_return ==
    /\ transit_pc = "done"
    /\ transit_pc' = "idle"
    /\ UNCHANGED <<settings, access_token, aggregate_vars, client_vars, route_vars,
                   upstream, transit_data, normalizer_vars,
                   extra_vars>>

\* Lines 298-311 with the last route taken for the best one.
get_transit_summary_last_route(data) ==
    IF data.status # "available" \/ data.routes = <<>>
    THEN [available |-> FALSE, fare |-> None, duration_minutes |-> None,
          transit_lines |-> None, transfers |-> None]
    ELSE LET best_route == data.routes[Len(data.routes)]
         IN  [available |-> TRUE,
              fare |-> Num(best_route.pricing.total_fare),
              duration_minutes |-> Num(best_route.duration_minutes),
              transit_lines |-> [list |-> best_route.transit_lines],
              transfers |-> Num(best_route.transfers)]

\* Lines 290-311 once get_transit_directions has returned data.  The texts
\* (duration, distance, summary) are copied through and left out.
get_transit_summary(data) ==
    IF data.status # "available" \/ data.routes = <<>>
    THEN [available |-> FALSE, fare |-> None, duration_minutes |-> None,
          transit_lines |-> None, transfers |-> None]
    ELSE LET best_route == data.routes[1]
         IN  [available |-> TRUE,
              fare |-> Num(best_route.pricing.total_fare),
              duration_minutes |-> Num(best_route.duration_minutes),
              transit_lines |-> [list |-> best_route.transit_lines],
              transfers |-> Num(best_route.transfers)]

\* The caller of get_transit_directions is get_transit_summary, which
\* returns its summary: lines 288-311.
get_transit_summary_return ==
    /\ transit_pc = "done"
    /\ transit_pc' = "summarized"
    /\ transit_summary' = get_transit_summary(transit_data)
    /\ UNCHANGED <<settings, access_token, aggregate_vars, client_vars, route_vars,
                   upstream, transit_data, normalizer_vars, estimator_vars,
                   directions_vars, geocode_vars, cache_vars, repeat_vars>>

\* The caller takes the summary and keeps it.
transit_summary_taken ==
    /\ transit_pc = "summarized"
    /\ transit_pc' = "idle"
    /\ UNCHANGED <<settings, access_token, aggregate_vars, client_vars, route_vars,
                   upstream, transit_data, normalizer_vars, estimator_vars,
                   directions_vars, geocode_vars, summary_vars, cache_vars,
                   repeat_vars>>

TransitNext ==
    \/ get_transit_directions_call
    \/ fetch_transit_routes_reply
    \/ transit_return
    \/ get_transit_summary_return
    \/ transit_summary_taken

TransitSpec == TransitInit /\ [][TransitNext]_vars

(***************************************************************************)
(* Product-name normalization of the two providers                         *)
(***************************************************************************)

\* The most words a product name is made of.
MaxWords == 2

ProductWords ==
    {<<"U", "b", "e", "r">>,
     <<"U", "b", "e", "r", "X">>,
     <<"X">>,
     <<"X", "L">>,
     <<"B", "i", "k", "e">>,
     <<"S", "c", "o", "o", "t", "e", "r">>,
     <<"P", "o", "o", "l">>,
     <<"C", "o", "m", "f", "o", "r", "t">>,
     <<"B", "l", "a", "c", "k", "-", "S", "U", "V">>,
     <<"L", "y", "f", "t">>,
     <<"S", "T", "A", "N", "D", "A", "R", "D">>,
     <<"S", "h", "a", "r", "e", "d">>,
     <<"L", "i", "n", "e">>,
     <<"L", "u", "x">>,
     <<"T", "a", "x", "i">>}

\* " ".join(words)
RECURSIVE JoinWords(_)
JoinWords(words) ==
    IF words = <<>> THEN <<>>
    ELSE IF Len(words) = 1 THEN words[1]
    ELSE words[1] \o <<" ">> \o JoinWords(Tail(words))

\* The product names a provider can send, the empty name among them.
ProductNames ==
    {JoinWords(words) : words \in UNION {[1..n -> ProductWords] : n \in 0..MaxWords}}

NormalizerInit ==
    /\ settings \in {st \in Settings : \A k \in DOMAIN st : st[k] = None}
    /\ access_token = None
    /\ pc = "idle"
    /\ origin = None
    /\ destination = None
    /\ mode_i = 1
    /\ routes_data = EmptyDict
    /\ origin_coords = None
    /\ destination_coords = None
    /\ pricing_data = None
    /\ uber_task = NoTask
    /\ lyft_task = NoTask
    /\ result = None
    /\ dir_ok = {}
    /\ requests = {}
    /\ authenticated = {}
    /\ failed = {}
    /\ client_idle
    /\ route_idle
    /\ transit_idle
    /\ product_name \in ProductNames
    /\ product_keys = None
    /\ extra_idle

\* Each provider's normalizer is called on the name: uber_service.py line 170
\* and lyft_service.py line 210.
normalize_product ==
    /\ product_keys' = [uber |-> _normalize_product_name(product_name),
                        lyft |-> _normalize_ride_type_name(Str(product_name))]
    /\ UNCHANGED <<settings, access_token, aggregate_vars, client_vars, route_vars,
                   transit_vars, product_name,
                   extra_vars>>

NormalizerNext == normalize_product

NormalizerSpec == NormalizerInit /\ [][NormalizerNext]_vars

(***************************************************************************)
(* The synthetic estimators on their own                                   *)
(***************************************************************************)

\* No aggregate request runs and no credential is configured.
aggregate_idle ==
    /\ settings \in {st \in Settings : \A k \in DOMAIN st : st[k] = None}
    /\ access_token = None
    /\ pc = "idle"
    /\ origin = None
    /\ destination = None
    /\ mode_i = 1
    /\ routes_data = EmptyDict
    /\ origin_coords = None
    /\ destination_coords = None
    /\ pricing_data = None
    /\ uber_task = NoTask
    /\ lyft_task = NoTask
    /\ result = None
    /\ dir_ok = {}
    /\ requests = {}
    /\ authenticated = {}
    /\ failed = {}

\* Trips end on a grid around their start: GridStep thousandths of a degree
\* apart, at most MaxOffset grid lines away.
MaxOffset == 3
GridStep == 13

TripStarts == {TimesSquare, CentralPark}

Trips ==
    {[start_lat |-> p.lat, start_lng |-> p.lng,
      end_lat |-> p.lat + i * GridStep, end_lng |-> p.lng + j * GridStep] :
        p \in TripStarts, i \in -MaxOffset..MaxOffset, j \in -MaxOffset..MaxOffset}

\* Both estimators on one trip.
mock_estimates_of(args) ==
    [uber |-> _mock_price_estimates(args.start_lat, args.start_lng,
                                    args.end_lat, args.end_lng),
     lyft |-> _mock_cost_estimates(args.start_lat, args.start_lng,
                                   args.end_lat, args.end_lng)]

EstimatorInit ==
    /\ aggregate_idle
    /\ client_idle
    /\ route_idle
    /\ transit_idle
    /\ normalizer_idle
    /\ mock_args \in [a : Trips, b : Trips]
    /\ mock_estimates = None
    /\ directions_idle
    /\ geocode_idle
    /\ summary_idle
    /\ cache_idle
    /\ repeat_idle

\* _mock_price_estimates and _mock_cost_estimates are called on both trips.
mock_estimate ==
    /\ mock_estimates = None
    /\ mock_estimates' = [a |-> mock_estimates_of(mock_args.a),
                          b |-> mock_estimates_of(mock_args.b)]
    /\ UNCHANGED <<settings, access_token, aggregate_vars, client_vars, route_vars,
                   transit_vars, normalizer_vars, mock_args, directions_vars,
                   geocode_vars, summary_vars, cache_vars, repeat_vars>>

EstimatorNext == mock_estimate

EstimatorSpec == EstimatorInit /\ [][EstimatorNext]_vars

(***************************************************************************)
(* GoogleMapsService._get_directions on its own                            *)
(***************************************************************************)

\* The longest leg duration of a directions reply, in seconds.
MaxSeconds == 200

\* A leg that takes the given time.
LegOf(seconds) == [LegB EXCEPT !.duration = [text |-> "3 mins", value |-> seconds]]

\* The replies of the directions endpoint: those of the aggregate request,
\* other failure statuses, and a first leg of every duration, followed by an
\* alternative route and a second leg.
DirectionsResponses(mode) ==
    DirectionsReplies(mode)
    \cup {[status |-> "NOT_FOUND", routes |-> <<>>],
          [status |-> "REQUEST_DENIED", routes |-> << [legs |-> <<LegA>>] >>],
          [status |-> "OK", routes |-> << [legs |-> <<>>], [legs |-> <<LegA>>] >>]}
    \cup {[status |-> "OK",
           routes |-> << [legs |-> <<LegOf(seconds), LegA>>], [legs |-> <<LegA>>] >>] :
             seconds \in 0..MaxSeconds}

DirectionsInit ==
    /\ aggregate_idle
    /\ client_idle
    /\ route_idle
    /\ transit_idle
    /\ normalizer_idle
    /\ estimator_idle
    /\ directions_idle
    /\ geocode_idle
    /\ summary_idle
    /\ cache_idle
    /\ repeat_idle

\* _get_directions is called for a mode and sends its request: lines 75-88.
_get_directions_call ==
    /\ directions_ret = Absent
    /\ directions_mode = "none"
    /\ \E mode \in Modes : directions_mode' = mode
    /\ UNCHANGED <<settings, access_token, aggregate_vars, client_vars, route_vars,
                   transit_vars, normalizer_vars, estimator_vars,
                   directions_response, directions_ret, geocode_vars, summary_vars,
                   cache_vars, repeat_vars>>

\* The request is answered and the call returns: lines 88-111.
_get_directions_reply ==
    /\ directions_mode # "none"
    /\ directions_ret = Absent
    /\ \E reply \in DirectionsResponses(directions_mode) :
        /\ directions_response' = reply
        /\ directions_ret' = _get_directions(reply, directions_mode)
    /\ UNCHANGED <<settings, access_token, aggregate_vars, client_vars, route_vars,
                   transit_vars, normalizer_vars, estimator_vars, directions_mode,
                   geocode_vars, summary_vars, cache_vars, repeat_vars>>

DirectionsNext ==
    \/ _get_directions_call
    \/ _get_directions_reply

DirectionsSpec == DirectionsInit /\ [][DirectionsNext]_vars

(***************************************************************************)
(* GET /geocode and GoogleMapsService.geocode_address                      *)
(***************************************************************************)

\* The most results a geocoding reply holds.
MaxResults == 3

Addresses == {Text("Times Square, New York, NY"), Text("nowhere")}

ResultLists ==
    UNION {[1..n -> {TimesSquare, CentralPark, BadResult}] : n \in 0..MaxResults}

\* The replies of the geocoding endpoint.
GeocodeResponses ==
    {Throws}
    \cup {[status |-> status, results |-> results] :
            status \in {"OK", "ZERO_RESULTS", "REQUEST_DENIED"},
            results \in ResultLists}

\* The ways the try block of the handler ends (routes.py lines 69-77):
\* GoogleMapsService() raises ValueError without an API key, an empty result
\* raises HTTPException(404), anything else is returned.
geocode_handler_try(key, geocoded) ==
    IF ~Truthy(key)
    THEN [raised |-> "ValueError", status_code |-> 0, detail |-> "no key",
          body |-> None]
    ELSE IF geocoded = None
    THEN [raised |-> "HTTPException", status_code |-> 404,
          detail |-> "Address not found", body |-> None]
    ELSE [raised |-> "no", status_code |-> 200, detail |-> "", body |-> geocoded]

\* The except clauses of lines 78-81: ValueError gives 400, every other
\* Exception, HTTPException among them, gives 500.
geocode_handler(key, geocoded) ==
    LET outcome == geocode_handler_try(key, geocoded)
    IN  IF outcome.raised = "ValueError"
        THEN [status_code |-> 400, detail |-> outcome.detail, body |-> None]
        ELSE IF outcome.raised # "no"
        THEN [status_code |-> 500, detail |-> "Error geocoding address",
              body |-> None]
        ELSE [status_code |-> 200, detail |-> "", body |-> outcome.body]

GeocodeInit ==
    /\ aggregate_idle
    /\ client_idle
    /\ route_idle
    /\ transit_idle
    /\ normalizer_idle
    /\ estimator_idle
    /\ directions_idle
    /\ api_key \in {None, Configured}
    /\ geocode_pc = "idle"
    /\ address = None
    /\ geocode_calls = 0
    /\ geocode_response = None
    /\ geocode_ret = None
    /\ http_response = None
    /\ summary_idle
    /\ cache_idle
    /\ repeat_idle

\* GET /geocode arrives: the service is constructed and geocode_address
\* sends its request (routes.py 69-71, google_maps.py 19-22 and 258-268).
geocode_request ==
    /\ geocode_pc = "idle"
    /\ \E a \in Addresses : address' = a
    /\ geocode_response' = None
    /\ geocode_ret' = None
    /\ IF ~Truthy(api_key)
       THEN /\ geocode_pc' = "responded"
            /\ geocode_calls' = 0
            /\ http_response' = geocode_handler(api_key, None)
       ELSE /\ geocode_pc' = "await_geocode"
            /\ geocode_calls' = 1
            /\ http_response' = None
    /\ UNCHANGED <<settings, access_token, aggregate_vars, client_vars, route_vars,
                   transit_vars, normalizer_vars, estimator_vars, directions_vars,
                   api_key, summary_vars, cache_vars, repeat_vars>>

\* The geocoding request is answered, geocode_address returns and the
\* handler answers (google_maps.py 268-287, routes.py 71-81).
geocode_reply ==
    /\ geocode_pc = "await_geocode"
    /\ \E reply \in GeocodeResponses :
        /\ geocode_response' = reply
        /\ geocode_ret' = geocode_address(reply)
        /\ http_response' = geocode_handler(api_key, geocode_address(reply))
    /\ geocode_pc' = "responded"
    /\ UNCHANGED <<settings, access_token, aggregate_vars, client_vars, route_vars,
                   transit_vars, normalizer_vars, estimator_vars, directions_vars,
                   api_key, address, geocode_calls, summary_vars, cache_vars,
                   repeat_vars>>

\* The response is sent; the next request can arrive.
geocode_responded ==
    /\ geocode_pc = "responded"
    /\ geocode_pc' = "idle"
    /\ UNCHANGED <<settings, access_token, aggregate_vars, client_vars, route_vars,
                   transit_vars, normalizer_vars, estimator_vars, directions_vars,
                   api_key, address, geocode_calls, geocode_response, geocode_ret,
                   http_response, summary_vars, cache_vars, repeat_vars>>

GeocodeNext ==
    \/ geocode_request
    \/ geocode_reply
    \/ geocode_responded

GeocodeSpec == GeocodeInit /\ [][GeocodeNext]_vars

(***************************************************************************)
(* SimpleCache                                                             *)
(***************************************************************************)

\* The most set, get and clear operations on the cache, and the latest time
\* the clock shows, in seconds.
MaxOps == 3
MaxTime == 2

CacheKeys == {"origin", "destination"}
CacheValues == {Text("routes-1"), Text("routes-2")}
TTLs == {0, 1}

\* A dict over CacheKeys: Absent marks a key the dict does not hold.
NoEntries == [k \in CacheKeys |-> Absent]

\* get with the expired entry left in place.
cache_get_keeps_expired(cache, timestamps, key, ttl_seconds, t) ==
    IF cache[key] = Absent
    THEN [ret |-> None, cache |-> cache, timestamps |-> timestamps]
    ELSE IF timestamps[key] = Absent
    THEN [ret |-> None, cache |-> cache, timestamps |-> timestamps]
    ELSE IF t - timestamps[key].num > ttl_seconds
    THEN [ret |-> None, cache |-> cache, timestamps |-> timestamps]
    ELSE [ret |-> cache[key], cache |-> cache, timestamps |-> timestamps]

\* Lines 28-42: what get returns and the two dicts it leaves, at time t.
cache_get(cache, timestamps, key, ttl_seconds, t) ==
    IF cache[key] = Absent
    THEN [ret |-> None, cache |-> cache, timestamps |-> timestamps]
    ELSE IF timestamps[key] = Absent
    THEN [ret |-> None, cache |-> cache, timestamps |-> timestamps]
    ELSE IF t - timestamps[key].num > ttl_seconds
    THEN [ret |-> None,
          cache |-> [cache EXCEPT ![key] = Absent],
          timestamps |-> [timestamps EXCEPT ![key] = Absent]]
    ELSE [ret |-> cache[key], cache |-> cache, timestamps |-> timestamps]

\* An entry of the history of operations.
LogEntry(op, key, value, ttl_seconds, ret) ==
    [op |-> op, key |-> key, value |-> value, ttl |-> ttl_seconds, time |-> now,
     ret |-> ret]

CacheInit ==
    /\ aggregate_idle
    /\ client_idle
    /\ route_idle
    /\ transit_idle
    /\ normalizer_idle
    /\ estimator_idle
    /\ directions_idle
    /\ geocode_idle
    /\ summary_idle
    /\ _cache = NoEntries
    /\ _timestamps = NoEntries
    /\ now = 0
    /\ cache_ret = None
    /\ cache_log = <<>>
    /\ repeat_idle

\* set(key, value): lines 52-53.
cache_set ==
    /\ Len(cache_log) < MaxOps
    /\ \E key \in CacheKeys, value \in CacheValues :
        /\ _cache' = [_cache EXCEPT ![key] = value]
        /\ _timestamps' = [_timestamps EXCEPT ![key] = Num(now)]
        /\ cache_ret' = None
        /\ cache_log' = Append(cache_log, LogEntry("set", key, value, 0, None))
    /\ UNCHANGED <<settings, access_token, aggregate_vars, client_vars, route_vars,
                   transit_vars, normalizer_vars, estimator_vars, directions_vars,
                   geocode_vars, summary_vars, now, repeat_vars>>

\* get(key, ttl_seconds): lines 28-42.
cache_get_call ==
    /\ Len(cache_log) < MaxOps
    /\ \E key \in CacheKeys, ttl_seconds \in TTLs :
        LET r == cache_get(_cache, _timestamps, key, ttl_seconds, now)
        IN  /\ _cache' = r.cache
            /\ _timestamps' = r.timestamps
            /\ cache_ret' = r.ret
            /\ cache_log' = Append(cache_log,
                                   LogEntry("get", key, None, ttl_seconds, r.ret))
    /\ UNCHANGED <<settings, access_token, aggregate_vars, client_vars, route_vars,
                   transit_vars, normalizer_vars, estimator_vars, directions_vars,
                   geocode_vars, summary_vars, now, repeat_vars>>

\* clear(): lines 57-58.
cache_clear ==
    /\ Len(cache_log) < MaxOps
    /\ _cache' = NoEntries
    /\ _timestamps' = NoEntries
    /\ cache_ret' = None
    /\ cache_log' = Append(cache_log, LogEntry("clear", "", None, 0, None))
    /\ UNCHANGED <<settings, access_token, aggregate_vars, client_vars, route_vars,
                   transit_vars, normalizer_vars, estimator_vars, directions_vars,
                   geocode_vars, summary_vars, now, repeat_vars>>

\* size(): line 62.
cache_size ==
    /\ cache_ret' = Num(Cardinality({k \in CacheKeys : _cache[k] # Absent}))
    /\ UNCHANGED <<settings, access_token, aggregate_vars, client_vars, route_vars,
                   transit_vars, normalizer_vars, estimator_vars, directions_vars,
                   geocode_vars, summary_vars, _cache, _timestamps, now, cache_log,
                   repeat_vars>>

\* A second passes on the clock that datetime.now() reads.
cache_tick ==
    /\ now < MaxTime
    /\ now' = now + 1
    /\ UNCHANGED <<settings, access_token, aggregate_vars, client_vars, route_vars,
                   transit_vars, normalizer_vars, estimator_vars, directions_vars,
                   geocode_vars, summary_vars, _cache, _timestamps, cache_ret,
                   cache_log, repeat_vars>>

CacheNext ==
    \/ cache_set
    \/ cache_get_call
    \/ cache_clear
    \/ cache_size
    \/ cache_tick

CacheSpec == CacheInit /\ [][CacheNext]_vars

(***************************************************************************)
(* get_multi_modal_routes called again on the same instance, the upstream   *)
(* answering every request the same way each time                           *)
(***************************************************************************)

MaxRepeats == 2

\* One answer per request the call can make.  The directions of the three
\* modes after driving and the geocoding of the destination succeed; the
\* other answers range over the reply sets.
FixedUpstreams ==
    [directions : {[mode \in Modes |->
                        IF mode = "driving" THEN reply
                        ELSE [status |-> "OK", routes |-> << [legs |-> <<LegA>>] >>]]
                   : reply \in DirectionsReplies("driving")},
     geocode_origin : {Throws,
                       [status |-> "ZERO_RESULTS", results |-> <<>>],
                       [status |-> "OK", results |-> <<TimesSquare>>]},
     geocode_destination : {[status |-> "OK", results |-> <<CentralPark, TimesSquare>>]},
     uber_price : UberPriceReplies,
     lyft_token : LyftTokenReplies,
     lyft_cost : LyftCostReplies]

RECURSIVE directions_loop(_, _, _)
\* google_maps.py lines 43-53: the loop over modes from index i on.
directions_loop(routes, answers, i) ==
    IF i > Len(modes) THEN routes
    ELSE directions_loop(
             directions_loop_body(routes, answers.directions[modes[i]], modes[i]),
             answers, i + 1)

\* google_maps.py lines 183-217: the Uber task of the gather.
uber_task_call(st, answers, args, duration) ==
    LET no_token == server_token_missing(st.uber_client_id)
        estimates == get_price_estimates(st.uber_client_id,
                         IF no_token THEN None ELSE answers.uber_price,
                         args.start_lat, args.start_lng, args.end_lat, args.end_lng)
    IN  [ret |-> _get_uber_pricing(estimates, duration),
         requests |-> IF no_token THEN {} ELSE {"uber_price"}]

\* google_maps.py lines 222-256 with lyft_service.py lines 77-110: the Lyft
\* task of the gather and what it leaves in LyftService.access_token.
lyft_task_call(st, token, answers, args, duration) ==
    LET cost == get_cost_estimates(answers.lyft_cost, args.start_lat,
                                   args.start_lng, args.end_lat, args.end_lng)
    IN  IF ~token_needed(token)
        THEN [ret |-> _get_lyft_pricing(cost, duration),
              access_token |-> token,
              requests |-> {"lyft_cost"}]
        ELSE IF credentials_missing(st.lyft_client_id, st.lyft_client_secret)
        THEN [ret |-> _get_lyft_pricing(lyft_mock_for(args), duration),
              access_token |-> token,
              requests |-> {}]
        ELSE LET got == _get_access_token(st.lyft_client_id, st.lyft_client_secret,
                                          token, answers.lyft_token)
             IN  IF ~Truthy(got.token)
                 THEN [ret |-> _get_lyft_pricing(lyft_mock_for(args), duration),
                       access_token |-> got.access_token,
                       requests |-> {"lyft_token"}]
                 ELSE [ret |-> _get_lyft_pricing(cost, duration),
                       access_token |-> got.access_token,
                       requests |-> {"lyft_token", "lyft_cost"}]

\* google_maps.py lines 30-73: one whole call.  response is what the caller
\* gets (Raise when the call raises), access_token what the instance holds
\* afterwards, requests the pricing requests the call sent.
get_multi_modal_routes_call(st, token, answers, from_address, to_address, stamp) ==
    LET routes == directions_loop(EmptyDict, answers, 1)
        from_coords == geocode_address(answers.geocode_origin)
        to_coords == geocode_address(answers.geocode_destination)
        pricing == initial_pricing_data(routes)
        duration == duration_minutes_of(routes, "driving")
    IN  IF from_coords = Raise \/ to_coords = Raise
        THEN [response |-> Raise, access_token |-> token, requests |-> {}]
        ELSE IF coordinates_missing(from_coords, to_coords)
        THEN [response |-> build_result(from_address, to_address, routes, pricing,
                                        stamp),
              access_token |-> token,
              requests |-> {}]
        ELSE LET args == pricing_args(from_coords, to_coords)
                 uber == uber_task_call(st, answers, args, duration)
                 lyft == lyft_task_call(st, token, answers, args, duration)
             IN  [response |-> build_result(from_address, to_address, routes,
                                   gather_results(pricing, uber.ret, lyft.ret), stamp),
                  access_token |-> lyft.access_token,
                  requests |-> uber.requests \cup lyft.requests]

\* A fresh instance, the answers of the upstream fixed, no call made yet.
RepeatInit ==
    /\ settings \in {st \in Settings : st.uber_client_secret = st.uber_client_id}
    /\ access_token = None
    /\ pc = "idle"
    /\ origin = None
    /\ destination = None
    /\ mode_i = 1
    /\ routes_data = EmptyDict
    /\ origin_coords = None
    /\ destination_coords = None
    /\ pricing_data = None
    /\ uber_task = NoTask
    /\ lyft_task = NoTask
    /\ result = None
    /\ dir_ok = {}
    /\ requests = {}
    /\ authenticated = {}
    /\ failed = {}
    /\ client_idle
    /\ route_idle
    /\ transit_idle
    /\ normalizer_idle
    /\ estimator_idle
    /\ directions_idle
    /\ geocode_idle
    /\ summary_idle
    /\ cache_idle
    /\ fixed_upstream \in FixedUpstreams
    /\ responses = <<>>

\* One call of get_multi_modal_routes with the same arguments, from entry to
\* return; datetime.now() is read from the environment.
repeat_call ==
    /\ fixed_upstream # None
    /\ Len(responses) < MaxRepeats
    /\ \E r \in Requests, stamp \in Timestamps :
        LET call == get_multi_modal_routes_call(settings, access_token,
                                                fixed_upstream, r[1], r[2], stamp)
        IN  /\ access_token' = call.access_token
            /\ responses' = Append(responses, [response |-> call.response,
                                               requests |-> call.requests])
    /\ UNCHANGED <<settings, pc, origin, destination, mode_i, routes_data,
                   origin_coords, destination_coords, pricing_data, uber_task,
                   lyft_task, result, dir_ok, requests, authenticated, failed>>
    /\ UNCHANGED <<client_vars, route_vars, transit_vars, normalizer_vars,
                   estimator_vars, directions_vars, geocode_vars, summary_vars,
                   cache_vars, fixed_upstream>>

RepeatNext == repeat_call

RepeatSpec == RepeatInit /\ [][RepeatNext]_vars

(***************************************************************************)
(* Properties                                                              *)
(***************************************************************************)

uber_entry == result.pricing.rideshare.uber
lyft_entry == result.pricing.rideshare.lyft
mta_entry == result.pricing.transit.mta
citi_bike_entry == result.pricing.micromobility.citi_bike

ProviderEntries == {uber_entry, lyft_entry, mta_entry, citi_bike_entry}

Geocoded == origin_coords # None /\ destination_coords # None

uber_mock ==
    _mock_price_estimates(origin_coords.lat, origin_coords.lng,
                          destination_coords.lat, destination_coords.lng)

\* A reply of the token endpoint that delivers a token.
TokenDelivered(reply) ==
    /\ reply # Throws
    /\ reply.status_code = 200
    /\ reply.json # NotDict
    /\ "access_token" \in DOMAIN reply.json
    /\ Truthy(reply.json.access_token)

\* The Lyft task takes its first step.
LyftCallStarts == lyft_task.pc = "created" /\ lyft_task'.pc # "created"

\* C1: whatever the directions, geocoding, token and pricing calls answer
\* (success, a non-success status, malformed data, an exception), no exception
\* leaves get_multi_modal_routes, and the response it returns holds origin,
\* destination, routes, pricing and timestamp.
C1_AggregateNeverRaises ==
    /\ pc # "raised"
    /\ pc = "done" =>
        /\ DOMAIN result = {"origin", "destination", "routes", "pricing", "timestamp"}
        /\ result.origin = origin
        /\ result.destination = destination
        /\ result.routes = routes_data
        /\ DOMAIN result.pricing = {"rideshare", "transit", "micromobility"}
        /\ DOMAIN result.pricing.rideshare = {"uber", "lyft"}
        /\ result.timestamp \in Timestamps

\* Every directions call failed, both addresses geocoded, the Uber price
\* request threw and the Lyft token request threw: a response is returned.
C1_Witness ==
    /\ pc = "done"
    /\ dir_ok = {}
    /\ Geocoded
    /\ uber_task.reply = Throws
    /\ lyft_task.token_reply = Throws
    /\ result # None

\* C2: the routes map holds a mode's entry exactly when that mode's own
\* directions call succeeded, a failed mode is a missing key and never a None
\* placeholder, and the step of one mode leaves every other mode's entry as
\* it was.
C2_RoutesIffModeSucceeded ==
    /\ [](/\ DOMAIN routes_data = dir_ok
          /\ \A m \in DOMAIN routes_data : routes_data[m] # None
          /\ pc = "done" => (DOMAIN result.routes = dir_ok
                             /\ \A m \in dir_ok : result.routes[m] # None))
    /\ [][pc = "directions" =>
            \A m \in Modes \ {modes[mode_i]} :
                /\ m \in DOMAIN routes_data' <=> m \in DOMAIN routes_data
                /\ m \in DOMAIN routes_data => routes_data'[m] = routes_data[m]]_vars

\* Transit and bicycling failed, driving and walking are in the response.
C2_Witness ==
    /\ pc = "done"
    /\ dir_ok = {"driving", "walking"}
    /\ DOMAIN result.routes = {"driving", "walking"}

\* C3: when the origin or the destination did not geocode, no provider
\* request is sent, neither provider task exists, both rideshare entries are
\* 'unavailable', and the routes map holds every mode that succeeded.
C3_NoCoordinatesNoPricing ==
    (pc = "done" /\ ~Geocoded) =>
        /\ requests = {}
        /\ uber_task = NoTask
        /\ lyft_task = NoTask
        /\ uber_entry.status = "unavailable"
        /\ lyft_entry.status = "unavailable"
        /\ uber_entry.price = None
        /\ lyft_entry.price = None
        /\ DOMAIN result.routes = dir_ok

\* The origin geocoded, the destination did not, all four modes succeeded,
\* all credentials are configured.
C3_Witness ==
    /\ pc = "done"
    /\ origin_coords # None
    /\ destination_coords = None
    /\ dir_ok = Modes
    /\ settings = [uber_client_id |-> Configured, uber_client_secret |-> Configured,
                   lyft_client_id |-> Configured, lyft_client_secret |-> Configured]
    /\ uber_entry.status = "unavailable"

\* C4: the two provider branches are joined all-settled: when gather returns
\* both tasks have run to their end, each rideshare entry is what its own task
\* returned whatever happened in the other, a task whose try block raised
\* contributes status 'error' or 'unavailable', and a step of one task leaves
\* the other task untouched.
C4_AllSettledJoin ==
    /\ []((pc = "done" /\ Geocoded) =>
            /\ uber_task.pc = "done"
            /\ lyft_task.pc = "done"
            /\ uber_entry = uber_task.ret
            /\ lyft_entry = lyft_task.ret
            /\ uber_task.raised => uber_entry.status \in {"error", "unavailable"}
            /\ lyft_task.raised => lyft_entry.status \in {"error", "unavailable"})
    /\ [][(pc = "gather" /\ pc' = "gather") =>
            /\ uber_task' # uber_task => lyft_task' = lyft_task
            /\ lyft_task' # lyft_task => uber_task' = uber_task
            /\ uber_task.pc = "done" => uber_task' = uber_task
            /\ lyft_task.pc = "done" => lyft_task' = lyft_task]_vars

\* The Uber branch raised (a metered UberX has no numeric estimate) while the
\* Lyft branch delivered a live quote.
C4_Witness ==
    /\ pc = "done"
    /\ uber_task.raised
    /\ uber_entry.status = "error"
    /\ lyft_task.reply = [status_code |-> 200,
                          json |-> [cost_estimates |-> <<Lyft_item>>]]
    /\ lyft_entry.status = "available"
    /\ lyft_entry.price = Num(1400)

\* C5: every provider entry of the pricing map carries a non-null
\* price if and only if its status is 'available'.
C5_PriceIffAvailable ==
    pc = "done" =>
        \A e \in ProviderEntries : (e.price # None) <=> (e.status = "available")

\* C6 as claimed: every rideshare entry of the response carries the
\* duration_minutes of the driving route.
C6_DurationIsDriving ==
    (pc = "done" /\ "driving" \in DOMAIN result.routes) =>
        /\ uber_entry.duration = Num(result.routes["driving"].duration_minutes)
        /\ lyft_entry.duration = Num(result.routes["driving"].duration_minutes)

\* C6 as amended: when both addresses geocoded, both rideshare entries carry
\* the duration_minutes of the driving route (None when there is no driving
\* route), whatever the provider reported.
C6_DurationIsDrivingWhenGeocoded ==
    (pc = "done" /\ Geocoded) =>
        IF "driving" \in DOMAIN result.routes
        THEN /\ uber_entry.duration = Num(result.routes["driving"].duration_minutes)
             /\ lyft_entry.duration = Num(result.routes["driving"].duration_minutes)
        ELSE /\ uber_entry.duration = None
             /\ lyft_entry.duration = None

\* Driving takes 12 minutes; the live UberX reports 600 s and the live Lyft
\* 500 s; both entries carry 12.
C6_Witness ==
    /\ pc = "done"
    /\ "driving" \in DOMAIN result.routes
    /\ result.routes["driving"].duration_minutes = 12
    /\ uber_task.reply = [status_code |-> 200,
                          json |-> [prices |-> <<UberX_item>>]]
    /\ uber_entry.status = "available"
    /\ lyft_task.reply = [status_code |-> 200,
                          json |-> [cost_estimates |-> <<Lyft_item>>]]
    /\ uber_entry.duration = Num(12)
    /\ lyft_entry.duration = Num(12)

\* C7: a provider client returns the synthetic estimate for the coordinates,
\* without raising, when its credential pair is absent, when authentication
\* failed, and when the pricing request threw or was not answered 200; what it
\* returns differs from the synthetic estimate only after a 200.
C7_SyntheticOnFailure ==
    /\ uber_task.pc = "done" =>
        /\ uber_task.estimates # Raise
        /\ (settings.uber_client_id = None /\ settings.uber_client_secret = None)
              => uber_task.estimates = uber_mock
        /\ (uber_task.reply # None /\ RequestFailed(uber_task.reply))
              => uber_task.estimates = uber_mock
        /\ uber_task.estimates # uber_mock
              => (uber_task.reply # None /\ ~RequestFailed(uber_task.reply))
    /\ lyft_task.pc = "done" =>
        /\ lyft_task.estimates # Raise
        /\ (settings.lyft_client_id = None /\ settings.lyft_client_secret = None)
              => lyft_task.estimates = lyft_mock
        /\ (lyft_task.token_reply # None /\ ~TokenDelivered(lyft_task.token_reply))
              => lyft_task.estimates = lyft_mock
        /\ (lyft_task.reply # None /\ RequestFailed(lyft_task.reply))
              => lyft_task.estimates = lyft_mock
        /\ lyft_task.estimates # lyft_mock
              => (lyft_task.reply # None /\ ~RequestFailed(lyft_task.reply))

\* The Uber price request was answered 401 and the Lyft token request was
\* answered 401: both clients returned their synthetic estimate.
C7_Witness ==
    /\ uber_task.pc = "done"
    /\ uber_task.reply # None
    /\ uber_task.reply # Throws
    /\ uber_task.reply.status_code = 401
    /\ uber_task.estimates = uber_mock
    /\ lyft_task.pc = "done"
    /\ lyft_task.token_reply # None
    /\ lyft_task.token_reply # Throws
    /\ lyft_task.token_reply.status_code = 401
    /\ lyft_task.estimates = lyft_mock

LyftRequests == {"lyft_token", "lyft_cost"}

\* C8 as claimed: a provider of whose credential pair either member is not
\* configured sends no request and returns the synthetic estimate.
C8_EitherMissingNoRequest ==
    /\ (settings.uber_client_id = None \/ settings.uber_client_secret = None) =>
        /\ "uber_price" \notin requests
        /\ uber_task.pc = "done" => uber_task.estimates = uber_mock
    /\ (settings.lyft_client_id = None \/ settings.lyft_client_secret = None) =>
        /\ requests \cap LyftRequests = {}
        /\ lyft_task.pc = "done" => lyft_task.estimates = lyft_mock

\* C8 as amended: the Lyft client sends no request and returns the synthetic
\* estimate when either member of its pair is not configured; the Uber client
\* does so when its client id is not configured, and never reads its client
\* secret.
C8_MissingCredentialNoRequest ==
    /\ settings.uber_client_id = None =>
        /\ "uber_price" \notin requests
        /\ uber_task.pc \in {"none", "created", "done"}
        /\ uber_task.pc = "done" => uber_task.estimates = uber_mock
    /\ (settings.lyft_client_id = None \/ settings.lyft_client_secret = None) =>
        /\ requests \cap LyftRequests = {}
        /\ lyft_task.pc \in {"none", "created", "done"}
        /\ lyft_task.pc = "done" => lyft_task.estimates = lyft_mock

\* Lyft has a client id and no client secret, Uber has a client secret and no
\* client id: both tasks are done on synthetic estimates with no request sent.
C8_Witness ==
    /\ settings = [uber_client_id |-> None, uber_client_secret |-> Configured,
                   lyft_client_id |-> Configured, lyft_client_secret |-> None]
    /\ uber_task.pc = "done"
    /\ lyft_task.pc = "done"
    /\ uber_task.estimates = uber_mock
    /\ lyft_task.estimates = lyft_mock
    /\ requests = {}

\* The token a provider client sends with its pricing requests.
HoldsToken(provider) ==
    IF provider = "uber" THEN Truthy(server_token) ELSE Truthy(access_token)

\* C9 as claimed: a provider client holds a token only after an
\* authentication request of its own was answered with a token.
C9_TokenOnlyAfterAuthentication ==
    \A provider \in {"uber", "lyft"} : HoldsToken(provider) => provider \in authenticated

\* C9 as amended: the Lyft client holds a token only after a token request
\* was answered 200 with a token, requests a token only while it holds none,
\* holds none after a failed token request, and a pricing call that finds no
\* token (with credentials configured) requests one.
C9_LyftTokenStateMachine ==
    /\ [](/\ Truthy(access_token) => "lyft" \in authenticated
          /\ lyft_task.pc = "await_token" => ~Truthy(access_token))
    /\ [][(lyft_task.pc = "await_token" /\ lyft_task'.pc = "done")
            => ~Truthy(access_token')]_vars
    /\ [][(lyft_task.pc = "await_token" /\ lyft_task'.pc = "await_cost")
            => (Truthy(access_token') /\ TokenDelivered(lyft_task'.token_reply))]_vars
    /\ [][(LyftCallStarts /\ ~Truthy(access_token)
           /\ Truthy(settings.lyft_client_id) /\ Truthy(settings.lyft_client_secret))
            => (lyft_task'.pc = "await_token" /\ "lyft_token" \in requests')]_vars

\* A token request failed in an earlier call; this call holds no token and
\* has sent a token request again.
C9_Witness ==
    /\ "token" \in failed
    /\ access_token = None
    /\ lyft_task.pc = "await_token"
    /\ "lyft_token" \in requests

\* C10: after a pricing request sent with a held token has failed,
\* the next pricing call on the same client sends a token request.
C10_ReauthenticatesAfterFailure ==
    [][("cost" \in failed /\ LyftCallStarts) => "lyft_token" \in requests']_vars

\* The coroutines whose token request is in flight.
AuthInFlight == {c \in CallIds : calls[c].pc = "await_token"}

\* C11: once the instance holds a token and no token request is in flight, no
\* call of get_cost_estimates, get_available_ride_types or get_eta_estimates
\* changes the token or sends a token request, whether the requests made with
\* the token succeed or not, and every request a call then sends carries the
\* held token.
C11_TokenKeptForLifetime ==
    [][(Truthy(access_token) /\ AuthInFlight = {}) =>
          /\ access_token' = access_token
          /\ AuthInFlight' = {}
          /\ \A c \in CallIds :
                (calls[c].pc # "await_reply" /\ calls'[c].pc = "await_reply")
                    => calls'[c].token = access_token]_vars

\* Three calls were made on the instance: the second, get_available_ride_types,
\* returned the live list, and the third, get_eta_estimates, has sent its
\* request with the token the first call obtained.
C11_Witness ==
    /\ n_calls = 3
    /\ access_token = Text("token-1")
    /\ AuthInFlight = {}
    /\ calls["b"].pc = "done"
    /\ calls["b"].method = "get_available_ride_types"
    /\ calls["b"].token = Text("token-1")
    /\ calls["b"].ret # _mock_available_ride_types
    /\ calls["a"].pc = "await_reply"
    /\ calls["a"].method = "get_eta_estimates"
    /\ calls["a"].token = Text("token-1")

\* C12: when calls run concurrently on an instance that holds no token, at
\* most one token request is in flight at any time, and the requests the calls
\* then send carry the same token.
C12_SingleAuthentication ==
    /\ \A c, d \in AuthInFlight : c = d
    /\ \A c, d \in CallIds :
          (calls[c].pc = "await_reply" /\ calls[d].pc = "await_reply")
              => calls[c].token = calls[d].token

\* Both geocoding calls of the request have returned.
GeocodingCompleted == pc \in {"pricing", "gather", "done"}

\* The coordinates the two geocoding calls returned, as provider arguments.
GeocodedArgs ==
    [start_lat |-> origin_coords.lat, start_lng |-> origin_coords.lng,
     end_lat |-> destination_coords.lat, end_lng |-> destination_coords.lng]

\* C13: a provider task exists and a provider request is sent only after both
\* geocoding calls have returned, the coordinates stay what those calls
\* returned from then on, and the arguments of both provider calls are
\* exactly those coordinates.
C13_PricingAfterGeocoding ==
    /\ [](\A task \in {uber_task, lyft_task} :
            /\ task.pc # "none" => GeocodingCompleted
            /\ task.args # None => (Geocoded /\ task.args = GeocodedArgs))
    /\ [](requests # {} => (GeocodingCompleted /\ Geocoded))
    /\ [][(requests' \ requests # {}) =>
            /\ pc = "gather"
            /\ Geocoded
            /\ "uber_price" \in requests' \ requests => uber_task'.args = GeocodedArgs
            /\ (requests' \ requests) \cap LyftRequests # {}
                  => lyft_task'.args = GeocodedArgs]_vars
    /\ [][(pc \in {"pricing", "gather"}) =>
            (origin_coords' = origin_coords
             /\ destination_coords' = destination_coords)]_vars

\* The origin geocoded to Times Square and the destination to Central Park;
\* both provider requests are in flight with exactly those coordinates.
C13_Witness ==
    /\ pc = "gather"
    /\ origin_coords # None
    /\ destination_coords # None
    /\ origin_coords.lat = TimesSquare.lat
    /\ destination_coords.lat = CentralPark.lat
    /\ uber_task.pc = "await_price"
    /\ lyft_task.pc = "await_cost"
    /\ uber_task.args = [start_lat |-> 40759, start_lng |-> -73985,
                         end_lat |-> 40783, end_lng |-> -73965]
    /\ lyft_task.args = uber_task.args
    /\ requests = {"uber_price", "lyft_token", "lyft_cost"}

\* The route has a leg and _process_transit_route has run on it.
RouteProcessed == processed_route # Absent /\ raw_route # NoLegRoute

\* The steps of the route passed in.
raw_steps == raw_route.legs[1].steps

RawTransitSteps == {SubwayA, BusM15, BusX27, RailLIRR, Unnamed}

\* The positions of the transit steps of the route passed in.
TransitPositions == {i \in 1..Len(raw_steps) : raw_steps[i] \in RawTransitSteps}

\* C14: the fare is fixed by the step sequence with precedence express >
\* standard > free: EXPRESS_BUS_FARE 'Express Bus' when some transit step is
\* a bus of an express line (whatever the other steps are, and a subway line
\* named express does not count), else the standard fare 'Standard Fare'
\* when there is a transit step, else 0 'Free (Walking Only)'; a route that
\* is returned carries that fare.
C14_FarePrecedence ==
    RouteProcessed =>
        /\ route_trace.pricing =
              IF \E i \in 1..Len(raw_steps) : raw_steps[i] = BusX27
              THEN [total_fare |-> 700, fare_type |-> "Express Bus"]
              ELSE IF TransitPositions # {}
              THEN [total_fare |-> 290, fare_type |-> "Standard Fare"]
              ELSE [total_fare |-> 0, fare_type |-> "Free (Walking Only)"]
        /\ processed_route # None => processed_route.pricing = route_trace.pricing

\* A walk, a subway line named express and an express bus: the route is
\* returned with the flat express fare.
C14_Witness ==
    /\ raw_route = RouteOf(<<Walk400, SubwayA, BusX27>>)
    /\ processed_route # Absent
    /\ processed_route # None
    /\ processed_route.pricing.total_fare = EXPRESS_BUS_FARE
    /\ processed_route.pricing.fare_type = "Express Bus"

\* C15: transfers is max(0, number of transit steps - 1): 0 for routes with
\* no or one transit step, one less than the number of transit steps
\* otherwise; a route that is returned carries that count.
C15_TransferCount ==
    RouteProcessed =>
        /\ route_trace.transfers =
              Num(IF TransitPositions = {} THEN 0
                  ELSE Cardinality(TransitPositions) - 1)
        /\ processed_route # None => processed_route.transfers = route_trace.transfers.num

\* [walking 400 m, subway, walking 200 m]: no transfer, '600 m' on foot,
\* 'Standard Fare'.
C15_Witness ==
    /\ raw_route = RouteOf(<<Walk400, SubwayA, Walk200>>)
    /\ processed_route # Absent
    /\ processed_route # None
    /\ processed_route.transfers = 0
    /\ processed_route.walking_distance = Str(<<"6", "0", "0", " ", "m">>)
    /\ processed_route.pricing.fare_type = "Standard Fare"

\* The name a transit step of the route passed in is listed under: its short
\* name, the full name of a line without one, nothing for a line without any
\* name.
ListedNames(step) ==
    IF step = SubwayA THEN {Str(<<"A">>)}
    ELSE IF step = BusM15 THEN {Str(<<"M", "1", "5">>)}
    ELSE IF step = BusX27 THEN {Str(<<"X", "2", "7">>)}
    ELSE IF step = RailLIRR THEN {Str(<<"L", "I", "R", "R">>)}
    ELSE {}

\* The first step of the route passed in that is listed under the name.
FirstPosition(line_name) ==
    CHOOSE i \in TransitPositions :
        /\ line_name \in ListedNames(raw_steps[i])
        /\ \A j \in TransitPositions : line_name \in ListedNames(raw_steps[j]) => i <= j

\* C16: transit_lines holds the names of the transit steps only, each step
\* under its short name or, without one, its full name (a step without any
\* name adds nothing), each name once, in the order of first occurrence.
C16_TransitLines ==
    RouteProcessed =>
        LET lines == route_trace.transit_lines.list
        IN  /\ {lines[k] : k \in 1..Len(lines)} =
                  UNION {ListedNames(raw_steps[i]) : i \in TransitPositions}
            /\ \A k, l \in 1..Len(lines) : k # l => lines[k] # lines[l]
            /\ \A k, l \in 1..Len(lines) :
                  k < l => FirstPosition(lines[k]) < FirstPosition(lines[l])
            /\ processed_route # None => processed_route.transit_lines = lines

\* The rail line without a short name, the M15 and the rail line again: the
\* list is LIRR, M15.
C16_Witness ==
    /\ raw_route = RouteOf(<<RailLIRR, BusM15, RailLIRR>>)
    /\ processed_route # Absent
    /\ processed_route # None
    /\ processed_route.transit_lines =
          <<Str(<<"L", "I", "R", "R">>), Str(<<"M", "1", "5">>)>>

\* The metres a walking step of the route passed in adds when its text is in
\* metres.
RECURSIVE walked_meters(_)
walked_meters(steps) ==
    IF steps = <<>> THEN 0
    ELSE walked_meters(Tail(steps))
            + (IF Head(steps) = Walk400 THEN 400
               ELSE IF Head(steps) = Walk200 THEN 200
               ELSE IF Head(steps) = Walk900 THEN 900
               ELSE 0)

\* C17: whatever the distance texts of the walking steps are, the route is
\* computed and carries a walking distance, which is the sum in metres up to
\* 1000 and in kilometres above.
C17_WalkingDistanceTotal ==
    RouteProcessed =>
        /\ processed_route # None
        /\ route_trace.walking_distance # Raise
        /\ (\A i \in 1..Len(raw_steps) : raw_steps[i] # WalkMiles) =>
              LET total == walked_meters(raw_steps)
              IN  IF total > 1000
                  THEN route_trace.walking_distance = Str(km_text(total))
                  ELSE route_trace.walking_distance
                          = Str(str_of_int(total) \o <<" ", "m">>)

\* The raw routes _fetch_transit_routes returned, when it returned a list.
upstream_routes == _fetch_transit_routes(upstream).list

\* get_transit_directions has returned for a reply with a non-empty route list.
RoutesReturned ==
    /\ transit_pc = "done"
    /\ _fetch_transit_routes(upstream) \notin {None, NotList}
    /\ upstream_routes # <<>>

\* The positions among the first three raw routes whose route is processed.
KeptPositions ==
    {i \in 1..3 : i <= Len(upstream_routes)
                  /\ _process_transit_route(upstream_routes[i], i - 1) # None}

\* C18: the result holds the processed routes of the first three raw routes
\* only: at most 3 routes, in upstream order, each the processed form of the
\* raw route at its position, route_count the number of routes in the result,
\* and nothing in it comes from a raw route after the third.
C18_TopThreeRoutes ==
    RoutesReturned =>
        LET processed_routes == transit_data.routes
        IN  /\ transit_data.status = "available"
            /\ Len(processed_routes) <= 3
            /\ transit_data.route_count = Len(processed_routes)
            /\ Len(processed_routes) = Cardinality(KeptPositions)
            /\ \A k \in 1..Len(processed_routes) :
                  /\ processed_routes[k].route_id + 1 \in KeptPositions
                  /\ processed_routes[k] =
                        _process_transit_route(
                            upstream_routes[processed_routes[k].route_id + 1],
                            processed_routes[k].route_id)
            /\ \A k, l \in 1..Len(processed_routes) :
                  k < l => processed_routes[k].route_id < processed_routes[l].route_id

\* Four raw routes, the second of which cannot be processed: the result
\* holds the first and the third, and the fourth is not looked at.
C18_Witness ==
    /\ transit_pc = "done"
    /\ upstream = [json |-> [status |-> "OK",
                             routes |-> [list |-> <<GoodRouteA, FailingRoute,
                                                    GoodRouteB, GoodRouteA>>]]]
    /\ transit_data.route_count = 2
    /\ transit_data.routes[1].route_id = 0
    /\ transit_data.routes[2].route_id = 2
    /\ transit_data.routes[2].pricing.fare_type = "Express Bus"

\* A rule of a normalizer: it matches a lower-cased name that is one of `whole'
\* or that contains every substring of one of the alternatives `alts'.
RuleMatches(rule, name_lower) ==
    \/ name_lower \in rule.whole
    \/ \E alt \in rule.alts : \A sub \in alt : Contains(name_lower, sub)

\* The key of the first rule, in the order of the table, that matches the
\* name whatever its case; the lower-cased name with spaces and hyphens
\* replaced by underscores when no rule matches.
RuleKey(rules, name) ==
    IF \E i \in 1..Len(rules) : RuleMatches(rules[i], Lower(name))
    THEN rules[CHOOSE i \in 1..Len(rules) :
                  /\ RuleMatches(rules[i], Lower(name))
                  /\ \A j \in 1..(i - 1) : ~RuleMatches(rules[j], Lower(name))].key
    ELSE Slug(Lower(name))

UberRules ==
    <<[alts |-> {{<<"u", "b", "e", "r", "x">>}, {<<"u", "b", "e", "r", " ", "x">>}}, whole |-> {}, key |-> K_uberx],
      [alts |-> {{<<"b", "i", "k", "e">>}}, whole |-> {}, key |-> K_uber_bike],
      [alts |-> {{<<"s", "c", "o", "o", "t", "e", "r">>}}, whole |-> {}, key |-> K_uber_scooter],
      [alts |-> {{<<"p", "o", "o", "l">>}}, whole |-> {}, key |-> K_uber_pool],
      [alts |-> {{<<"x", "l">>}}, whole |-> {}, key |-> K_uber_xl],
      [alts |-> {{<<"c", "o", "m", "f", "o", "r", "t">>}}, whole |-> {}, key |-> K_uber_comfort],
      [alts |-> {{<<"b", "l", "a", "c", "k">>}}, whole |-> {}, key |-> K_uber_black]>>

\* Lyft's rules with every rule a substring rule.
LyftSubstringRules ==
    <<[alts |-> {{<<"l", "y", "f", "t">>, <<"b", "i", "k", "e">>}}, whole |-> {}, key |-> K_lyft_bike],
      [alts |-> {{<<"l", "y", "f", "t">>, <<"s", "c", "o", "o", "t", "e", "r">>}}, whole |-> {}, key |-> K_lyft_scooter],
      [alts |-> {{<<"l", "y", "f", "t">>}, {<<"s", "t", "a", "n", "d", "a", "r", "d">>}}, whole |-> {}, key |-> K_lyft_standard],
      [alts |-> {{<<"s", "h", "a", "r", "e", "d">>}, {<<"l", "i", "n", "e">>}}, whole |-> {}, key |-> K_lyft_shared],
      [alts |-> {{<<"x", "l">>}}, whole |-> {}, key |-> K_lyft_xl],
      [alts |-> {{<<"l", "u", "x">>}}, whole |-> {}, key |-> K_lyft_lux]>>

\* Lyft's rules with the standard rule matching the whole name.
LyftRules ==
    <<[alts |-> {{<<"l", "y", "f", "t">>, <<"b", "i", "k", "e">>}}, whole |-> {}, key |-> K_lyft_bike],
      [alts |-> {{<<"l", "y", "f", "t">>, <<"s", "c", "o", "o", "t", "e", "r">>}}, whole |-> {}, key |-> K_lyft_scooter],
      [alts |-> {}, whole |-> {<<"l", "y", "f", "t">>, <<"s", "t", "a", "n", "d", "a", "r", "d">>}, key |-> K_lyft_standard],
      [alts |-> {{<<"s", "h", "a", "r", "e", "d">>}, {<<"l", "i", "n", "e">>}}, whole |-> {}, key |-> K_lyft_shared],
      [alts |-> {{<<"x", "l">>}}, whole |-> {}, key |-> K_lyft_xl],
      [alts |-> {{<<"l", "u", "x">>}}, whole |-> {}, key |-> K_lyft_lux]>>

ProductNormalized == product_keys # None

\* C19 as stated: each normalizer maps every name, the empty one included, to
\* the key of the first rule one of whose substrings the name contains in any
\* case, and an unmatched name to its lower-cased form with spaces and hyphens
\* replaced by underscores.
C19_SubstringRulesInOrder ==
    ProductNormalized =>
        /\ product_keys.uber = RuleKey(UberRules, product_name)
        /\ product_keys.lyft = RuleKey(LyftSubstringRules, product_name)

\* C19 amended: as above for Uber; Lyft maps the empty name to "unknown", and
\* its standard rule matches only a name that is "lyft" or "standard" as a
\* whole, whatever its case.  A second call on the same name gives the same
\* keys.
C19_RulesInOrder ==
    /\ [](ProductNormalized =>
            /\ product_keys.uber = RuleKey(UberRules, product_name)
            /\ product_keys.lyft =
                  IF product_name = <<>> THEN K_unknown
                  ELSE RuleKey(LyftRules, product_name))
    /\ [][ProductNormalized => product_keys' = product_keys]_vars

\* A name holding "xl" before "bike": Uber's bike rule comes first, Lyft's
\* bike rule needs "lyft" and its xl rule answers.
C19_Witness ==
    /\ ProductNormalized
    /\ product_name = <<"X", "L", " ", "B", "i", "k", "e">>
    /\ product_keys.uber = K_uber_bike
    /\ product_keys.lyft = K_lyft_xl

\* The keys of the product categories.
CanonicalKeys ==
    {<<"s", "t", "a", "n", "d", "a", "r", "d">>,
     <<"x", "l">>,
     <<"b", "i", "k", "e">>,
     <<"s", "c", "o", "o", "t", "e", "r">>,
     <<"s", "h", "a", "r", "e", "d">>,
     <<"l", "u", "x">>}

\* The name names a product of one of the categories.
OfCategory(name) == \E key \in CanonicalKeys : Contains(Lower(name), key)

\* C20: for a product name of a category, the Uber normalizer and the Lyft
\* normalizer return the same key, one of the canonical key set.
C20_SameKeyAcrossProviders ==
    (ProductNormalized /\ OfCategory(product_name)) =>
        /\ product_keys.uber = product_keys.lyft
        /\ product_keys.uber \in CanonicalKeys

\* The square of the Euclidean coordinate distance of a trip.
SquaredDistance(args) ==
    (args.end_lat - args.start_lat) * (args.end_lat - args.start_lat)
    + (args.end_lng - args.start_lng) * (args.end_lng - args.start_lng)

\* The distance-priced product of each provider's synthetic estimate, as
\* [low, high, seconds].
DistancePriced(estimates) ==
    [uber |-> [low |-> Get(estimates.uber.products, K_uberx).low_estimate.num,
               high |-> Get(estimates.uber.products, K_uberx).high_estimate.num,
               seconds |-> Get(estimates.uber.products, K_uberx).duration.num],
     lyft |-> [low |-> Get(estimates.lyft.products,
                           K_lyft_standard).estimated_cost_cents_min.num,
               high |-> Get(estimates.lyft.products,
                            K_lyft_standard).estimated_cost_cents_max.num,
               seconds |-> Get(estimates.lyft.products,
                               K_lyft_standard).estimated_duration_seconds.num]]

\* The square of 12.42 s per thousandth of a degree (3 minutes a mile, 69
\* miles to the degree) times the squared distance d2, rounded down.
SquaredSeconds(d2) == 154 * d2 + (2564 * d2) \div 10000

\* seconds is max(8, miles * 3) minutes for a trip of squared distance d2 (in
\* thousandths of a degree), to the second: 480 s up to 8/3 mile, the
\* travel time beyond.
IsMockDuration(seconds, d2) ==
    IF SquaredSeconds(d2) <= 480 * 480
    THEN seconds = 480
    ELSE /\ seconds * seconds <= SquaredSeconds(d2)
         /\ SquaredSeconds(d2) < (seconds + 2) * (seconds + 2)

\* high is low-fare x factor/100, in whole cents.
IsHighOf(high, low, factor) ==
    /\ low <= high
    /\ 100 * high > factor * low - 100
    /\ 100 * high < factor * (low + 1)

\* C21: of two trips, the one of no greater Euclidean coordinate distance has
\* no greater low and high price of uberx and of lyft_standard; for each trip
\* the duration is max(8, distance_miles * 3) minutes, low <= high, and high
\* is the low fare x 1.3 for Uber and x 1.35 for Lyft.
C21_MockMonotone ==
    mock_estimates # None =>
        LET a == DistancePriced(mock_estimates.a)
            b == DistancePriced(mock_estimates.b)
        IN  /\ SquaredDistance(mock_args.a) <= SquaredDistance(mock_args.b) =>
                  \A provider \in {"uber", "lyft"} :
                      /\ a[provider].low <= b[provider].low
                      /\ a[provider].high <= b[provider].high
            /\ \A provider \in {"uber", "lyft"} :
                  IsMockDuration(a[provider].seconds, SquaredDistance(mock_args.a))
            /\ IsHighOf(a.uber.high, a.uber.low, 130)
            /\ IsHighOf(a.lyft.high, a.lyft.low, 135)

\* A trip below the 8 minute floor and a longer one above it, the longer one
\* with the smaller difference of latitudes.
C21_Witness ==
    /\ mock_estimates # None
    /\ SquaredDistance(mock_args.a) < SquaredDistance(mock_args.b)
    /\ mock_args.a.end_lat - mock_args.a.start_lat = 2 * GridStep
    /\ mock_args.a.end_lng = mock_args.a.start_lng
    /\ mock_args.b.end_lat - mock_args.b.start_lat = GridStep
    /\ DistancePriced(mock_estimates.a).uber.seconds = 480
    /\ DistancePriced(mock_estimates.b).uber.seconds > 480
    /\ DistancePriced(mock_estimates.a).lyft.low
          < DistancePriced(mock_estimates.b).lyft.low

\* _get_directions has returned.
DirectionsReturned == directions_ret # Absent

\* The first leg of the first route of the directions reply.
FirstLeg == directions_response.routes[1].legs[1]

\* C22: _get_directions returns None or a route and raises nothing; it
\* returns None when the call threw, the status is not OK or the body has no
\* readable first leg; a route returned has the distance, duration text,
\* addresses and step count of the first leg of the first route.
C22_DirectionsAbsentOrFirstLeg ==
    DirectionsReturned =>
        /\ directions_ret # Raise
        /\ ~DirectionsUsable(directions_response) => directions_ret = None
        /\ DirectionsUsable(directions_response) =>
              /\ directions_ret # None
              /\ directions_ret.distance = FirstLeg.distance.text
              /\ directions_ret.distance_meters = FirstLeg.distance.value
              /\ directions_ret.duration = FirstLeg.duration.text
              /\ directions_ret.start_address = FirstLeg.start_address
              /\ directions_ret.end_address = FirstLeg.end_address
              /\ directions_ret.steps = FirstLeg.steps
              /\ directions_ret.mode = directions_mode

\* The first route has two legs and an alternative route follows: the route
\* returned is the first leg (400 m, one step), not the 1200 m of the others.
C22_Witness ==
    /\ DirectionsReturned
    /\ directions_response =
          [status |-> "OK",
           routes |-> << [legs |-> <<LegB, LegA>>], [legs |-> <<LegA>>] >>]
    /\ directions_ret # None
    /\ directions_ret.distance_meters = 400
    /\ directions_ret.steps = 1

\* C23: duration_minutes is the leg duration in seconds divided by 60 and
\* rounded to the nearest integer, an exact half minute rounding up.
C23_HalfMinuteRoundsUp ==
    (DirectionsReturned /\ directions_ret # None) =>
        directions_ret.duration_minutes = (FirstLeg.duration.value + 30) \div 60

\* geocode_address was called and has returned.
GeocodeReturned == geocode_pc = "responded" /\ geocode_response # None

\* The reply has status OK and a first result that can be read.
GeocodeUsable ==
    /\ geocode_response # Throws
    /\ geocode_response.status = "OK"
    /\ Len(geocode_response.results) > 0
    /\ geocode_response.results[1] # BadResult

\* C24: one invocation of geocode_address sends one upstream request; it
\* raises nothing; it returns None on a transport failure, a status other than
\* OK, an empty result list (and a first result that cannot be read);
\* otherwise it returns the address and coordinates of the first result.
C24_GeocodeOnceFirstResult ==
    GeocodeReturned =>
        /\ geocode_calls = 1
        /\ geocode_ret # Raise
        /\ ~GeocodeUsable => geocode_ret = None
        /\ GeocodeUsable =>
              /\ geocode_ret # None
              /\ geocode_ret.lat = geocode_response.results[1].lat
              /\ geocode_ret.lng = geocode_response.results[1].lng
              /\ geocode_ret.address = geocode_response.results[1].formatted_address
              /\ geocode_ret.place_id = geocode_response.results[1].place_id

\* Two results: the coordinates returned are those of the first.
C24_Witness ==
    /\ GeocodeReturned
    /\ geocode_response = [status |-> "OK", results |-> <<CentralPark, TimesSquare>>]
    /\ geocode_calls = 1
    /\ geocode_ret # None
    /\ geocode_ret.lat = CentralPark.lat

\* C28: the handler answers 404 whenever geocode_address returned no result,
\* 400 for a ValueError and 500 for another exception raised while geocoding.
C28_NotFoundIs404 ==
    geocode_pc = "responded" =>
        /\ (geocode_response # None /\ geocode_ret = None) =>
              http_response.status_code = 404
        /\ ~Truthy(api_key) => http_response.status_code = 400

\* The line items of the live Uber pricing response of this call, <<>> when
\* there was none.
LiveUberItems ==
    IF /\ uber_task.pc = "done"
       /\ uber_task.reply # None
       /\ uber_task.reply # Throws
    THEN IF /\ uber_task.reply.status_code = 200
            /\ uber_task.reply.json # NotDict
            /\ "prices" \in DOMAIN uber_task.reply.json
         THEN uber_task.reply.json.prices
         ELSE <<>>
    ELSE <<>>

\* A line item of the expected shape: a record whose product name is not null.
WellFormedItem(item) == item # NotDict /\ item.display_name # None

\* The key a well-formed line item is stored under.
ItemKey(item) ==
    _normalize_product_name(IF item.display_name = Absent THEN <<>>
                            ELSE item.display_name.str)

\* C26: every well-formed line item of a live Uber pricing response is
\* normalized and returned by get_price_estimates, whatever the shape of the
\* other items of the response.
C26_MalformedItemAlone ==
    \A i \in 1..Len(LiveUberItems) :
        WellFormedItem(LiveUberItems[i]) =>
            /\ uber_task.estimates # Raise
            /\ HasKey(uber_task.estimates.products, ItemKey(LiveUberItems[i]))
            /\ \E j \in i..Len(LiveUberItems) :
                  /\ WellFormedItem(LiveUberItems[j])
                  /\ ItemKey(LiveUberItems[j]) = ItemKey(LiveUberItems[i])
                  /\ Get(uber_task.estimates.products,
                         ItemKey(LiveUberItems[i])).low_estimate
                        = LiveUberItems[j].low_estimate

\* The product map a provider client returned to a finished task, <<>> when
\* it returned none.
ProductsOf(task) ==
    IF task.pc = "done" /\ task.estimates # None /\ task.estimates # Raise
    THEN task.estimates.products
    ELSE <<>>

HasAvailable(products) ==
    \E i \in 1..Len(products) : products[i].val.status = "available"

\* C27: when the product map lacks the preferred key and holds an available
\* product, the rideshare entry of the provider is not taken from an
\* unavailable product.
C27_AvailableProductChosen ==
    /\ (~HasKey(ProductsOf(uber_task), K_uberx) /\ HasAvailable(ProductsOf(uber_task)))
          => uber_task.ret.status # "unavailable"
    /\ (~HasKey(ProductsOf(lyft_task), K_lyft_standard)
        /\ HasAvailable(ProductsOf(lyft_task)))
          => lyft_task.ret.status # "unavailable"

\* get_transit_summary has returned.
Summarized == transit_pc = "summarized"

\* One of the first three raw routes was processed.
HasProcessedRoute ==
    /\ _fetch_transit_routes(upstream) # None
    /\ _fetch_transit_routes(upstream) # NotList
    /\ KeptPositions # {}

\* The processed form of the earliest of the first three raw routes that
\* was processed.
EarliestProcessed ==
    LET i == CHOOSE k \in KeptPositions : \A l \in KeptPositions : k <= l
    IN  _process_transit_route(upstream_routes[i], i - 1)

\* C29: get_transit_summary returns a summary (it raises nothing); it is
\* available exactly when one of the first three raw routes was processed,
\* and then fare, duration, lines and transfers are those of the earliest such
\* route; otherwise it is not available and its fare is None.
C29_SummaryOfEarliestRoute ==
    Summarized =>
        /\ transit_summary # Raise
        /\ transit_summary.available = HasProcessedRoute
        /\ HasProcessedRoute =>
              /\ transit_summary.fare = Num(EarliestProcessed.pricing.total_fare)
              /\ transit_summary.duration_minutes
                    = Num(EarliestProcessed.duration_minutes)
              /\ transit_summary.transit_lines
                    = [list |-> EarliestProcessed.transit_lines]
              /\ transit_summary.transfers = Num(EarliestProcessed.transfers)
        /\ ~HasProcessedRoute => transit_summary.fare = None

\* The first raw route cannot be processed: the summary is that of the
\* second, an express bus, not of the subway route that follows.
C29_Witness ==
    /\ Summarized
    /\ upstream = [json |-> [status |-> "OK",
                             routes |-> [list |-> <<FailingRoute, GoodRouteB,
                                                    GoodRouteA>>]]]
    /\ transit_summary.available
    /\ transit_summary.fare = Num(EXPRESS_BUS_FARE)

\* The sets of the key among the first n operations.
SetsOf(key, n) ==
    {m \in 1..n : cache_log[m].op = "set" /\ cache_log[m].key = key}

\* The most recent of them.
LastSet(key, n) == CHOOSE m \in SetsOf(key, n) : \A l \in SetsOf(key, n) : l <= m

\* Operation j removes the entry written by operation m: a clear, or a get of
\* the key that finds the entry older than its ttl.
Removes(j, m) ==
    \/ cache_log[j].op = "clear"
    \/ /\ cache_log[j].op = "get"
       /\ cache_log[j].key = cache_log[m].key
       /\ cache_log[j].time - cache_log[m].time > cache_log[j].ttl

\* After the first n operations the cache holds an entry for the key: the
\* key was set and nothing has removed the entry of its most recent set.
Holds(key, n) ==
    /\ SetsOf(key, n) # {}
    /\ \A j \in (LastSet(key, n) + 1)..n : ~Removes(j, LastSet(key, n))

\* What the get that is operation n has to return.
ExpectedGet(n) ==
    LET g == cache_log[n]
    IN  IF /\ Holds(g.key, n - 1)
           /\ g.time - cache_log[LastSet(g.key, n - 1)].time <= g.ttl
        THEN cache_log[LastSet(g.key, n - 1)].value
        ELSE None

\* C30: every get returns the value of the most recent set of its key when
\* no clear and no get that found it expired has removed that entry and its
\* age is at most the ttl, and None otherwise; the value map and the
\* timestamp map hold the same keys, those whose entry has not been removed.
C30_CacheGet ==
    /\ \A n \in 1..Len(cache_log) :
          cache_log[n].op = "get" => cache_log[n].ret = ExpectedGet(n)
    /\ \A key \in CacheKeys :
          /\ (_cache[key] # Absent) = Holds(key, Len(cache_log))
          /\ (_timestamps[key] # Absent) = Holds(key, Len(cache_log))

\* A key is set, a second later a get with ttl 0 finds it expired, and a get
\* with ttl 1, which the age of the entry is within, returns None.
C30_Witness ==
    /\ Len(cache_log) = 3
    /\ cache_log[1].op = "set" /\ cache_log[1].time = 0
    /\ cache_log[2].op = "get" /\ cache_log[2].key = cache_log[1].key
    /\ cache_log[2].ttl = 0 /\ cache_log[2].time = 1
    /\ cache_log[3].op = "get" /\ cache_log[3].key = cache_log[1].key
    /\ cache_log[3].ttl = 1 /\ cache_log[3].time = 1
    /\ cache_ret = None
    /\ _cache[cache_log[1].key] = Absent

\* A response with its timestamp taken out; a raised call has none.
WithoutTimestamp(response) ==
    IF response = Raise THEN Raise
    ELSE [origin |-> response.origin,
          destination |-> response.destination,
          routes |-> response.routes,
          pricing |-> response.pricing]

\* C25: two calls of get_multi_modal_routes with the same arguments on the
\* same instance, against an upstream that answers each request the same way,
\* return responses that are equal in every field but timestamp; this covers
\* the second call reusing the Lyft token the first call obtained.
C25_RepeatedCallSameResponse ==
    \A i, j \in 1..Len(responses) :
        WithoutTimestamp(responses[i].response)
            = WithoutTimestamp(responses[j].response)

\* Two calls were made, the first obtained a Lyft token, the second sent the
\* cost request with the held token and no token request, the price is a live
\* one, and the two timestamps differ.
C25_Witness ==
    /\ Len(responses) = 2
    /\ "lyft_token" \in responses[1].requests
    /\ "lyft_token" \notin responses[2].requests
    /\ "lyft_cost" \in responses[2].requests
    /\ Truthy(access_token)
    /\ responses[1].response # Raise
    /\ responses[2].response # Raise
    /\ responses[1].response.timestamp # responses[2].response.timestamp
    /\ responses[2].response.pricing.rideshare.lyft.status = "available"

====
